---- MODULE Spec2Model ----
(***************************************************************************)
(* A model of the alle-ai-node client library: the request validators of   *)
(* the chat / image / audio / video modules, the transport functions       *)
(* makeRequest / makeFormDataRequest, the error classifier                 *)
(* handleErrorResponse of AlleAIClient, and processFile / downloadFile of  *)
(* utils.ts.                                                               *)
(*                                                                         *)
(* JavaScript values are records tagged by their typeof-like tag t;        *)
(* JavaScript strings are TLA+ strings, so includes / trim act on the      *)
(* characters.  Errors are records carrying the class name (kind), code,   *)
(* status, message and details that the constructors of core/errors set.   *)
(***************************************************************************)
EXTENDS Integers, Sequences, FiniteSets, TLC

VARIABLES
  pc,       \* position of the invocation: "idle", "file", "send", "done"
  op,       \* the operation (or transport function) being invoked
  req,      \* the request object handed to the operation
  pending,  \* the endpoint and body the method is about to hand to the transport
  exch,     \* the HTTP exchange the transport function observes
  calls,    \* the transport calls made by the invocation, in order
  fileio,   \* number of file-system / download operations the invocation started
  thrown,   \* what the transport function returned or threw to the module
  outcome,  \* what the caller of the operation receives
  task,     \* the calls of processFile: position, input, temp path, outcome
  disk,     \* the files present in the temp directory, by path
  unlinks   \* the temp paths whose fs.unlink was started and not awaited

vars == <<pc, op, req, pending, exch, calls, fileio, thrown, outcome,
          task, disk, unlinks>>
\* The variables of the client invocation, and those of processFile.
cvars == <<pc, op, req, pending, exch, calls, fileio, thrown, outcome>>
fvars == <<task, disk, unlinks>>

(***************************************************************************)
(* Bounds of the model.                                                    *)
(***************************************************************************)
\* HTTP statuses the server may answer with: MinStatus..MaxStatus.
MinStatus == 200
MaxStatus == 599
\* Longest models array a request carries.
MaxModels == 2
\* Longest messages array of the requests the chat validator is applied to.
MaxMessages == 2

(***************************************************************************)
(* JavaScript values.                                                      *)
(***************************************************************************)
Undef == [t |-> "undefined"]
Null == [t |-> "null"]
Str(s) == [t |-> "string", v |-> s]
Num(n) == [t |-> "number", v |-> n]
Bool(b) == [t |-> "boolean", v |-> b]
\* An object: f maps its own property names to values.
Obj(f) == [t |-> "object", f |-> f]
\* An array: a is the sequence of its elements.
Arr(a) == [t |-> "array", a |-> a]
\* Marks a property left out when an object literal is built.
Absent == [t |-> "absent"]
\* The outcome of an expression that throws instead of yielding a value.
Throws == [t |-> "throws"]

\* A number that is no integer (n + 0.5), and NaN.
Frac(n) == [t |-> "number", v |-> n, frac |-> TRUE]
NaN == [t |-> "number", v |-> 0, nan |-> TRUE]

IsNaN(v) == v.t = "number" /\ "nan" \in DOMAIN v
\* Number.isInteger
IsInteger(v) == v.t = "number" /\ DOMAIN v = {"t", "v"}
\* v < k and v <= k for a number v and an integer k (false for NaN).
NumLess(v, k) == ~IsNaN(v) /\ v.v < k
NumLessEq(v, k) ==
  ~IsNaN(v) /\ (IF "frac" \in DOMAIN v THEN v.v < k ELSE v.v <= k)

\* ToBoolean: what `if (v)` and `!v` test.
Truthy(v) ==
  CASE v.t = "undefined" -> FALSE
    [] v.t = "null" -> FALSE
    [] v.t = "string" -> v.v # ""
    [] v.t = "number" -> v.v # 0 \/ "frac" \in DOMAIN v
    [] v.t = "boolean" -> v.v
    [] OTHER -> TRUE

\* Array.isArray
IsArray(v) == v.t = "array"

\* typeof v === "object" (true of null, arrays and objects).
TypeofObject(v) == v.t \in {"object", "array", "null"}

\* k in v, for an object or array v and a property name k.
In(k, v) == v.t = "object" /\ k \in DOMAIN v.f

IsSpace(c) == c \in {" ", "\t", "\n", "\r"}

\* String.prototype.trim
RECURSIVE TrimStart(_)
TrimStart(s) ==
  IF s # "" /\ IsSpace(SubSeq(s, 1, 1)) THEN TrimStart(SubSeq(s, 2, Len(s)))
  ELSE s
RECURSIVE TrimEnd(_)
TrimEnd(s) ==
  IF s # "" /\ IsSpace(SubSeq(s, Len(s), Len(s)))
  THEN TrimEnd(SubSeq(s, 1, Len(s) - 1))
  ELSE s
Trim(s) == TrimEnd(TrimStart(s))

\* String.prototype.startsWith
StartsWith(s, m) == Len(s) >= Len(m) /\ SubSeq(s, 1, Len(m)) = m

\* String.prototype.includes on the characters of s.
Includes(s, m) ==
  \E i \in 1..(Len(s) - Len(m) + 1) : SubSeq(s, i, i + Len(m) - 1) = m

\* Property read v[k]: undefined for a missing property or a primitive.
\* (null and undefined throw; the callers test for them first.)
Get(v, k) == IF v.t = "object" /\ k \in DOMAIN v.f THEN v.f[k] ELSE Undef

\* The order in which the properties of an object literal are serialised.
KeyOrder == <<"code", "details", "raw", "message", "error">>

RECURSIVE JSONstringify(_)
RECURSIVE StringifyProps(_, _, _)
StringifyProps(f, i, first) ==
  IF i > Len(KeyOrder) THEN ""
  ELSE IF KeyOrder[i] \in DOMAIN f
       THEN (IF first THEN "" ELSE ",") \o "\"" \o KeyOrder[i] \o "\":"
              \o JSONstringify(f[KeyOrder[i]]) \o StringifyProps(f, i + 1, FALSE)
       ELSE StringifyProps(f, i + 1, first)
\* JSON.stringify of a value (strings quoted, properties in KeyOrder).
JSONstringify(v) ==
  CASE v.t = "string" -> "\"" \o v.v \o "\""
    [] v.t = "number" -> ToString(v.v)
    [] v.t = "boolean" -> IF v.v THEN "true" ELSE "false"
    [] v.t = "null" -> "null"
    [] v.t = "object" -> "{" \o StringifyProps(v.f, 1, TRUE) \o "}"
    [] OTHER -> "null"

\* String(v), the conversion the Error constructor and template literals apply.
JsString(v) ==
  CASE v.t = "string" -> v.v
    [] v.t = "number" ->
         IF IsNaN(v) THEN "NaN"
         ELSE IF "frac" \in DOMAIN v THEN ToString(v.v) \o ".5"
         ELSE ToString(v.v)
    [] v.t = "boolean" -> IF v.v THEN "true" ELSE "false"
    [] v.t = "null" -> "null"
    [] v.t = "undefined" -> "undefined"
    [] OTHER -> "[object Object]"

(***************************************************************************)
(* core/errors: the typed errors.                                          *)
(***************************************************************************)
AlleAIError(name, message, code, status, details) ==
  [kind |-> name, message |-> JsString(message), code |-> code,
   status |-> status, details |-> details]

ValidationError(message) ==
  AlleAIError("ValidationError", message, "VALIDATION_ERROR", Undef, Undef)

AuthenticationError(message, code, details) ==
  AlleAIError("AuthenticationError", message, code, Num(401), details)

InvalidRequestError(message, code, details) ==
  AlleAIError("InvalidRequestError", message, code, Num(400), details)

RateLimitError(message, code, details) ==
  AlleAIError("RateLimitError", message, code, Num(429), details)

ServiceUnavailableError(message, code, details) ==
  AlleAIError("ServiceUnavailableError", message, code, Num(503), details)

ConnectionError(message, code, details) ==
  AlleAIError("ConnectionError", message, code, Undef, details)

APIError(message, code, status, details) ==
  AlleAIError("APIError", message, code, status, details)

\* The subclasses of AlleAIError: what `error instanceof AlleAIError` accepts.
AlleAIErrorKinds ==
  {"ValidationError", "AuthenticationError", "InvalidRequestError",
   "RateLimitError", "ServiceUnavailableError", "ConnectionError", "APIError"}

IsAlleAIError(e) == e.kind \in AlleAIErrorKinds

(***************************************************************************)
(* The HTTP exchange as the transport functions observe it.                *)
(***************************************************************************)
Statuses == MinStatus..MaxStatus

DOCTYPE == "<!DOCTYPE html>"
HTMLTAG == "<html"

\* An object literal with the given details / message / error properties
\* (Absent: the property is left out).
MkObj(d, m, e) ==
  LET all == [details |-> d, message |-> m, error |-> e]
      keys == {k \in {"details", "message", "error"} : all[k] # Absent}
  IN  Obj([k \in keys |-> all[k]])

\* A details object, with or without a raw property.
MkDetails(raw) ==
  IF raw = Absent THEN Obj([code |-> Num(1)]) ELSE Obj([raw |-> raw])

DetailsValues ==
  {Absent, Null, MkDetails(Absent), MkDetails(Str("")),
   MkDetails(Str("upstream timed out")), MkDetails(Num(502)),
   MkDetails(Str("<!DOCTYPE html><title>502</title>")),
   MkDetails(Str("<center><html>nginx</html></center>"))}
MessageValues == {Absent, Str(""), Str("bad field"), Num(7)}
ErrorValues == {Absent, Str(""), Str("boom"), Obj([code |-> Num(7)])}

\* The values a JSON error body may decode to.
JsonValues ==
  {MkObj(d, m, e) : d \in DetailsValues, m \in MessageValues, e \in ErrorValues}
    \cup {Null, Str("oops"), Num(0)}

\* The escaping some servers apply to JSON text: "<" is written \u003c.
RECURSIVE EscapeLt(_)
EscapeLt(s) ==
  IF s = "" THEN ""
  ELSE (IF SubSeq(s, 1, 1) = "<" THEN "\\u003c" ELSE SubSeq(s, 1, 1))
         \o EscapeLt(SubSeq(s, 2, Len(s)))

\* A response body: the text response.text() yields (Throws: the stream
\* cannot be read) and the value JSON.parse yields for it (Throws: a
\* SyntaxError).
TextBody(text) == [text |-> Str(text), json |-> Throws]
JsonBody(v) == [text |-> Str(JSONstringify(v)), json |-> v]
JsonBodyEscaped(v) == [text |-> Str(EscapeLt(JSONstringify(v))), json |-> v]
UnreadableBody == [text |-> Throws, json |-> Throws]

Bodies ==
  {UnreadableBody}
    \cup {TextBody(s) : s \in {"", "Bad Gateway", "{\"message\":",
                               "<!DOCTYPE html><html><body>502</body></html>",
                               "<html><head></head></html>"}}
    \cup {JsonBody(v) : v \in JsonValues}
    \cup {JsonBodyEscaped(v) : v \in JsonValues}

Response(status, body) == [status |-> status, body |-> body]

\* What `throw` can carry out of fetch or of JSON.stringify(body): an Error
\* of some class with a message, or a value that is no Error.  cause says
\* where it comes from: the network, the URL, or the serialisation.
Exception(kind, message, cause) ==
  [kind |-> kind, message |-> message, cause |-> cause]

FetchExceptions ==
  {Exception("TypeError", "fetch failed", "network"),
   Exception("FetchError",
             "request to https://api.alle-ai.com/api/v1/chat/completions failed, reason: connect ECONNREFUSED 127.0.0.1:443",
             "network"),
   Exception("FetchError",
             "request to https://api.alle-ai.com/api/v1/chat/completions failed, reason: getaddrinfo ENOTFOUND api.alle-ai.com",
             "network"),
   Exception("Error", "socket hang up", "network"),
   Exception("TypeError", "Only absolute URLs are supported", "url")}

SerialiseExceptions ==
  {Exception("TypeError", "Converting circular structure to JSON", "serialise"),
   Exception("TypeError", "Do not know how to serialize a BigInt", "serialise"),
   Exception("RangeError", "Maximum call stack size exceeded", "serialise"),
   Exception("nonError", "toJSON failed while preparing fetch", "serialise")}

\* An exchange either completes with a response or ends with an exception.
Completed(r) == [done |-> TRUE, response |-> r]
Failed(x) == [done |-> FALSE, exc |-> x]

CompletedExchanges ==
  {Completed(Response(s, b)) : s \in Statuses, b \in Bodies}

\* makeRequest serialises the body itself; makeFormDataRequest is handed a
\* FormData and serialises nothing.
FailedExchanges(fn) ==
  {Failed(x) : x \in FetchExceptions}
    \cup (IF fn = "makeRequest" THEN {Failed(x) : x \in SerialiseExceptions}
          ELSE {})

ExchangesOf(fn) == CompletedExchanges \cup FailedExchanges(fn)

(***************************************************************************)
(* core/AlleAI.ts: handleErrorResponse.                                    *)
(***************************************************************************)
FallbackMessage ==
  Str("Server responded with unknown format. Please try again later.")

\* The initial errorMessage.
DefaultMessage(status) == Str("Request failed with status: " \o ToString(status))

\* The test applied to the body text and to details.raw.
LooksLikeHtmlNever(s) == FALSE
LooksLikeHtml(s) == Includes(s, DOCTYPE) \/ Includes(s, HTMLTAG)

\* The message taken from the message / error properties of the parsed body.
MessageOfErrorFirst(errorJson, status) ==
  IF Truthy(Get(errorJson, "error"))
  THEN (IF Get(errorJson, "error").t = "string"
        THEN Get(errorJson, "error")
        ELSE Str(JSONstringify(Get(errorJson, "error"))))
  ELSE IF Truthy(Get(errorJson, "message")) THEN Get(errorJson, "message")
  ELSE DefaultMessage(status)
MessageOfFallbackDefault(errorJson, status) ==
  IF Truthy(Get(errorJson, "message")) THEN Get(errorJson, "message")
  ELSE IF Truthy(Get(errorJson, "error"))
  THEN (IF Get(errorJson, "error").t = "string"
        THEN Get(errorJson, "error")
        ELSE Str(JSONstringify(Get(errorJson, "error"))))
  ELSE FallbackMessage
MessageOf(errorJson, status) ==
  IF Truthy(Get(errorJson, "message")) THEN Get(errorJson, "message")
  ELSE IF Truthy(Get(errorJson, "error"))
  THEN (IF Get(errorJson, "error").t = "string"
        THEN Get(errorJson, "error")
        ELSE Str(JSONstringify(Get(errorJson, "error"))))
  ELSE DefaultMessage(status)

\* The body of the inner try: the message for a body that parsed as JSON.
\* Reading a property of null, or calling includes on a value that has no
\* such method, throws a TypeError, which the inner catch turns into the
\* fallback.
ParsedMessage(errorJson, status) ==
  IF errorJson.t \in {"null", "undefined"} THEN FallbackMessage
  ELSE LET details == Get(errorJson, "details")
           raw == IF details.t \in {"null", "undefined"} THEN Undef
                  ELSE Get(details, "raw")
       IN  IF Truthy(raw)
           THEN (IF raw.t # "string" THEN FallbackMessage
                 ELSE IF LooksLikeHtml(raw.v) THEN FallbackMessage
                 ELSE MessageOf(errorJson, status))
           ELSE MessageOf(errorJson, status)

\* The errorMessage derived from the response body.
DeriveMessage(response) ==
  LET body == response.body
  IN  IF body.text = Throws THEN FallbackMessage
      ELSE IF LooksLikeHtml(body.text.v) THEN FallbackMessage
      ELSE IF body.json = Throws THEN FallbackMessage
      ELSE ParsedMessage(body.json, response.status)

\* The switch on the status: the typed error thrown for it.
StatusErrorNoTable(status, errorMessage) ==
  APIError(errorMessage, "API_ERROR_" \o ToString(status), Num(status),
           [message |-> errorMessage, status |-> Num(status)])
StatusError(status, errorMessage) ==
  LET errorResponse == [message |-> errorMessage, status |-> Num(status)]
  IN  CASE status = 400 ->
             InvalidRequestError(errorMessage, "INVALID_REQUEST", errorResponse)
        [] status = 401 ->
             AuthenticationError(errorMessage, "AUTH_ERROR", errorResponse)
        [] status = 403 ->
             AuthenticationError(errorMessage, "PERMISSION_DENIED", errorResponse)
        [] status = 404 ->
             APIError(errorMessage, "RESOURCE_NOT_FOUND", Num(status), errorResponse)
        [] status = 429 ->
             RateLimitError(errorMessage, "RATE_LIMIT", errorResponse)
        [] status \in {500, 502, 503, 504} ->
             ServiceUnavailableError(errorMessage, "SERVICE_ERROR", errorResponse)
        [] OTHER ->
             APIError(errorMessage, "API_ERROR_" \o ToString(status), Num(status),
                      errorResponse)

\* handleErrorResponse never returns: this is the error it throws.
handleErrorResponse(response) ==
  StatusError(response.status, DeriveMessage(response))

(***************************************************************************)
(* core/AlleAI.ts: makeRequest and makeFormDataRequest.                    *)
(***************************************************************************)
\* A call either returns a value or throws.
Return(v) == [ok |-> TRUE, data |-> v]
Throw(e) == [ok |-> FALSE, error |-> e]

\* response.ok
ResponseOk(response) == response.status >= 200 /\ response.status <= 299

\* The try block after fetch has resolved.
HandleResponse(response) ==
  IF ~ResponseOk(response) THEN Throw(handleErrorResponse(response))
  ELSE IF response.body.json = Throws
       THEN Throw(APIError(Str("Server returned invalid JSON response"),
                           "INVALID_RESPONSE", Num(response.status),
                           [message |-> Str("Invalid JSON response")]))
       ELSE Return(response.body.json)

\* The catch block: what is thrown on for an error caught from the try.
CatchBlockRethrow(error) == error
CatchBlockRewrap(error) ==
  IF error.kind = "TypeError" /\ Includes(error.message, "fetch")
  THEN ConnectionError(
         Str("Could not connect to the API. Please check your internet connection."),
         "CONNECTION_ERROR", [originalError |-> Str(error.message)])
  ELSE APIError(Str("An unexpected error occurred: " \o error.message),
                "UNEXPECTED_ERROR", Undef,
                [originalError |-> Str(error.message)])
CatchBlockBareMessage(error) ==
  IF IsAlleAIError(error) THEN error
  ELSE IF error.kind = "TypeError" /\ Includes(error.message, "fetch")
  THEN ConnectionError(
         Str("Could not connect to the API. Please check your internet connection."),
         "CONNECTION_ERROR", [originalError |-> Str(error.message)])
  ELSE APIError(Str(error.message), "UNEXPECTED_ERROR", Undef,
                [originalError |-> Str(error.message)])
CatchBlock(error) ==
  IF IsAlleAIError(error) THEN error
  ELSE IF error.kind = "TypeError" /\ Includes(error.message, "fetch")
  THEN ConnectionError(
         Str("Could not connect to the API. Please check your internet connection."),
         "CONNECTION_ERROR", [originalError |-> Str(error.message)])
  ELSE APIError(Str("An unexpected error occurred: " \o error.message),
                "UNEXPECTED_ERROR", Undef,
                [originalError |-> Str(error.message)])

\* try { ... } catch (error) { ... } around the exchange.
TryCatchFallback(exchange) ==
  IF exchange.done /\ HandleResponse(exchange.response).ok
  THEN HandleResponse(exchange.response)
  ELSE Return(Null)
TryCatch(exchange) ==
  LET tried == IF exchange.done THEN HandleResponse(exchange.response)
               ELSE Throw(exchange.exc)
  IN  IF tried.ok THEN tried ELSE Throw(CatchBlock(tried.error))

makeRequest(exchange) == TryCatch(exchange)

makeFormDataRequest(exchange) == TryCatch(exchange)

TransportFns == {"makeRequest", "makeFormDataRequest"}

Transport(fn, exchange) ==
  IF fn = "makeRequest" THEN makeRequest(exchange)
  ELSE makeFormDataRequest(exchange)

(***************************************************************************)
(* The transport functions called directly on every exchange.              *)
(***************************************************************************)
NoOutcome == [ok |-> FALSE, error |-> [kind |-> "none"]]
\* No call of processFile is running and the temp directory is empty.
Calls == {1, 2}
NoTask == [pc |-> "idle"]
NoFileActivity ==
  /\ task = [c \in Calls |-> NoTask]
  /\ disk = [p \in {} |-> 0]
  /\ unlinks = {}
NoExchange == Failed(Exception("none", "", "none"))
NoPending == [endpoint |-> "", body |-> Undef]

\* The record of one transport call.
Call(fn, p) == [fn |-> fn, endpoint |-> p.endpoint, body |-> p.body]

InitTransport ==
  /\ pc = "send"
  /\ op \in TransportFns
  /\ req = Undef
  /\ pending = NoPending
  /\ exch \in ExchangesOf(op)
  /\ calls = <<>>
  /\ fileio = 0
  /\ thrown = NoOutcome
  /\ outcome = NoOutcome
  /\ NoFileActivity

CallMakeRequest ==
  /\ pc = "send"
  /\ op = "makeRequest"
  /\ thrown' = makeRequest(exch)
  /\ outcome' = thrown'
  /\ calls' = Append(calls, Call(op, pending))
  /\ pc' = "done"
  /\ UNCHANGED <<op, req, pending, exch, fileio>>
  /\ UNCHANGED fvars

CallMakeFormDataRequest ==
  /\ pc = "send"
  /\ op = "makeFormDataRequest"
  /\ thrown' = makeFormDataRequest(exch)
  /\ outcome' = thrown'
  /\ calls' = Append(calls, Call(op, pending))
  /\ pc' = "done"
  /\ UNCHANGED <<op, req, pending, exch, fileio>>
  /\ UNCHANGED fvars

NextTransport == CallMakeRequest \/ CallMakeFormDataRequest

SpecTransport == InitTransport /\ [][NextTransport]_vars

(***************************************************************************)
(* Checks shared by the modules (the same statements open every method).   *)
(***************************************************************************)
Ok == Return(Undef)
Invalid(message) == Throw(ValidationError(Str(message)))

\* The two checks of models.
validateModels(models) ==
  IF ~Truthy(models) \/ ~IsArray(models) \/ Len(models.a) = 0
  THEN Invalid("models must be a non-empty array of strings")
  ELSE IF \E i \in DOMAIN models.a : models.a[i].t # "string"
  THEN Invalid("all elements in models must be strings")
  ELSE Ok

\* The check of a required string: prompt, image_file, audio_file, requestId.
validateNonEmptyString(value, name) ==
  IF ~Truthy(value) \/ value.t # "string" \/ Trim(value.v) = ""
  THEN Invalid(name \o " must be a non-empty string")
  ELSE Ok

\* The check of model_specific_params in the audio and video modules.
validateParamsLoose(params) ==
  IF params # Undef /\ ~TypeofObject(params)
  THEN Invalid("model_specific_params must be an object")
  ELSE Ok

\* A destructuring default: it applies when the property is undefined.
Default(value, d) == IF value = Undef THEN d ELSE value

\* The first failure of a sequence of checks, or the last one's result.
RECURSIVE FirstFailure(_, _)
FirstFailure(checks, i) ==
  IF i >= Len(checks) \/ ~checks[i].ok THEN checks[i]
  ELSE FirstFailure(checks, i + 1)

(***************************************************************************)
(* modules/chat: AlleChat.                                                 *)
(***************************************************************************)
ValidTypes == {"text", "audio_url", "image_url", "video_url"}

validateContentObjectAnyType(content, path) ==
  IF ~Truthy(content) \/ ~TypeofObject(content) \/ ~In("type", content)
  THEN Invalid(path \o " must be an object with a 'type' property")
  ELSE Ok
validateContentObject(content, path) ==
  IF ~Truthy(content) \/ ~TypeofObject(content) \/ ~In("type", content)
  THEN Invalid(path \o " must be an object with a 'type' property")
  ELSE IF ~(Get(content, "type").t = "string"
            /\ Get(content, "type").v \in ValidTypes)
  THEN Invalid(path \o ".type must be one of: text, audio_url, image_url, video_url")
  ELSE Ok

\* contents.forEach((content, j) => validateContentObject(content, prefix[j]))
RECURSIVE ValidateContents(_, _, _)
ValidateContents(contents, prefix, j) ==
  IF j > Len(contents) THEN Ok
  ELSE LET r == validateContentObject(
                  contents[j], prefix \o "[" \o ToString(j - 1) \o "]")
       IN  IF r.ok THEN ValidateContents(contents, prefix, j + 1) ELSE r

\* The order in which Object.values lists the properties of an object.
PropertyOrder == <<"gpt-4o", "yi-large", "claude">>

ObjectValues(o) ==
  LET ks == SelectSeq(PropertyOrder, LAMBDA k : k \in DOMAIN o.f)
  IN  [i \in 1..Len(ks) |-> o.f[ks[i]]]

\* The loop body for key "system" or "user".
ValidateRole(msg, key) ==
  IF In(key, msg) /\ Truthy(Get(msg, key))
  THEN IF ~IsArray(Get(msg, key))
       THEN Invalid(key \o " must be an array of content objects")
       ELSE ValidateContents(Get(msg, key).a, key, 1)
  ELSE Ok

\* Object.values(msg.assistants).forEach((contents, i) => ...)
RECURSIVE ValidateAssistantValues(_, _)
ValidateAssistantValues(values, i) ==
  IF i > Len(values) THEN Ok
  ELSE IF ~IsArray(values[i])
  THEN Invalid("assistants value at index " \o ToString(i - 1)
                 \o " must be an array")
  ELSE LET r == ValidateContents(values[i].a, "assistants value", 1)
       IN  IF r.ok THEN ValidateAssistantValues(values, i + 1) ELSE r

ValidateAssistants(msg) ==
  IF In("assistants", msg) /\ Truthy(Get(msg, "assistants"))
  THEN IF ~TypeofObject(Get(msg, "assistants")) \/ IsArray(Get(msg, "assistants"))
       THEN Invalid("assistants must be an object mapping models to content arrays")
       ELSE ValidateAssistantValues(ObjectValues(Get(msg, "assistants")), 1)
  ELSE Ok

validateMessageContentUserFirst(msg, index) ==
  FirstFailure(<<ValidateRole(msg, "user"), ValidateRole(msg, "system"),
                 ValidateAssistants(msg)>>, 1)
validateMessageContent(msg, index) ==
  FirstFailure(<<ValidateRole(msg, "system"), ValidateRole(msg, "user"),
                 ValidateAssistants(msg)>>, 1)

\* messages.forEach((msg, index) => ...)
RECURSIVE ValidateMessages(_, _)
ValidateMessages(messages, i) ==
  IF i > Len(messages) THEN Ok
  ELSE LET msg == messages[i]
           index == ToString(i - 1)
       IN  IF ~Truthy(msg) \/ ~TypeofObject(msg)
           THEN Invalid("messages[" \o index \o "] must be an object")
           ELSE IF ~(In("system", msg) \/ In("user", msg) \/ In("assistants", msg))
           THEN Invalid("messages[" \o index
                          \o "] must have at least one of: system, user, assistants")
           ELSE LET r == validateMessageContent(msg, i - 1)
                IN  IF r.ok THEN ValidateMessages(messages, i + 1) ELSE r

validateRequestParameters(request) ==
  LET models == Get(request, "models")
      messages == Get(request, "messages")
  IN  IF ~validateModels(models).ok THEN validateModels(models)
      ELSE IF ~Truthy(messages) \/ ~IsArray(messages) \/ Len(messages.a) = 0
      THEN Invalid("messages must be a non-empty array")
      ELSE ValidateMessages(messages.a, 1)

\* What a method does before it awaits: Throw(error) when it throws at
\* once, else Return of the endpoint and the body it hands to the transport.
Send(endpoint, body) == Return([endpoint |-> endpoint, body |-> body])

completions(request) ==
  IF ~validateRequestParameters(request).ok
  THEN validateRequestParameters(request)
  ELSE Send("/chat/completions", request)

combination(request) ==
  IF ~validateRequestParameters(request).ok
  THEN validateRequestParameters(request)
  ELSE Send("/chat/combination", request)

\* The call of validateRequestParameters is commented out.
comparison(request) == Send("/chat/comparison", request)

search(request) ==
  IF ~validateRequestParameters(request).ok
  THEN validateRequestParameters(request)
  ELSE Send("/ai/web-search", request)

(***************************************************************************)
(* modules/Image: AlleImage.generate (edit follows processFile below).     *)
(***************************************************************************)
\* typeof v !== "number" || !Number.isInteger(v) || v < min
NotIntegerAtLeastLoose(v, min) ==
  v.t # "number" \/ ~IsInteger(v) \/ NumLess(v, min - 1)
NotIntegerAtLeast(v, min) == v.t # "number" \/ ~IsInteger(v) \/ NumLess(v, min)

ImageGenerate(request) ==
  LET models == Get(request, "models")
      prompt == Get(request, "prompt")
      width == Default(Get(request, "width"), Num(1024))
      height == Default(Get(request, "height"), Num(1024))
      n == Default(Get(request, "n"), Num(1))
      style_preset == Default(Get(request, "style_preset"), Null)
      seed == Default(Get(request, "seed"), Null)
      params == Default(Get(request, "model_specific_params"), Obj([x \in {} |-> Undef]))
  IN  IF ~validateModels(models).ok THEN validateModels(models)
      ELSE IF ~validateNonEmptyString(prompt, "prompt").ok
      THEN validateNonEmptyString(prompt, "prompt")
      ELSE IF width # Undef /\ NotIntegerAtLeast(width, 64)
      THEN Invalid("width must be an integer >= 64")
      ELSE IF height # Undef /\ NotIntegerAtLeast(height, 64)
      THEN Invalid("height must be an integer >= 64")
      ELSE IF n # Undef /\ NotIntegerAtLeast(n, 1)
      THEN Invalid("n must be an integer >= 1")
      ELSE IF seed # Null /\ seed # Undef /\ (seed.t # "number" \/ ~IsInteger(seed))
      THEN Invalid("seed must be an integer or null")
      ELSE IF style_preset # Null /\ style_preset # Undef /\ style_preset.t # "string"
      THEN Invalid("style_preset must be a string or null")
      ELSE IF params # Undef /\ (~TypeofObject(params) \/ params = Null)
      THEN Invalid("model_specific_params must be an object")
      ELSE Send("/image/generate",
                Obj([models |-> models, prompt |-> prompt, width |-> width,
                     height |-> height, n |-> n, style_preset |-> style_preset,
                     seed |-> seed, model_specific_params |-> params]))

(***************************************************************************)
(* modules/Audio: AlleAudio.generate and tts (stt follows processFile).    *)
(***************************************************************************)
AudioGenerate(request) ==
  LET models == Get(request, "models")
      prompt == Get(request, "prompt")
      params == Default(Get(request, "model_specific_params"), Obj([x \in {} |-> Undef]))
  IN  FirstFailure(
        <<validateModels(models),
          validateNonEmptyString(prompt, "prompt"),
          validateParamsLoose(params),
          Send("/audio/generate",
               Obj([models |-> models, prompt |-> prompt,
                    model_specific_params |-> params]))>>, 1)

\* The single-model check of tts and stt (models is an array here).
validateSingleModelNever(models, what) == Ok
validateSingleModel(models, what) ==
  IF Len(models.a) > 1
  THEN Invalid("Only one model is supported for " \o what
                 \o " processing at this time")
  ELSE Ok

tts(request) ==
  LET models == Get(request, "models")
      prompt == Get(request, "prompt")
      voice == Default(Get(request, "voice"), Str("nova"))
      params == Default(Get(request, "model_specific_params"), Obj([x \in {} |-> Undef]))
  IN  IF ~validateModels(models).ok THEN validateModels(models)
      ELSE IF ~validateSingleModel(models, "text-to-speech").ok
      THEN validateSingleModel(models, "text-to-speech")
      ELSE IF ~validateNonEmptyString(prompt, "prompt").ok
      THEN validateNonEmptyString(prompt, "prompt")
      ELSE IF Truthy(voice) /\ voice.t # "string"
      THEN Invalid("voice must be a string")
      ELSE IF ~validateParamsLoose(params).ok THEN validateParamsLoose(params)
      ELSE Send("/audio/tts",
                Obj([models |-> models, prompt |-> prompt, voice |-> voice,
                     model_specific_params |-> params]))

(***************************************************************************)
(* modules/Video: AlleVideo.                                               *)
(***************************************************************************)
\* The position of the first sep in s at or after i, or 0.
RECURSIVE IndexFrom(_, _, _)
IndexFrom(s, sep, i) ==
  IF i + Len(sep) - 1 > Len(s) THEN 0
  ELSE IF SubSeq(s, i, i + Len(sep) - 1) = sep THEN i
  ELSE IndexFrom(s, sep, i + 1)

\* String.prototype.split for a non-empty separator.
RECURSIVE Split(_, _)
Split(s, sep) ==
  LET i == IndexFrom(s, sep, 1)
  IN  IF i = 0 THEN <<s>>
      ELSE <<SubSeq(s, 1, i - 1)>> \o Split(SubSeq(s, i + Len(sep), Len(s)), sep)

IsDigits(s) ==
  \A i \in 1..Len(s) :
    SubSeq(s, i, i) \in {"0", "1", "2", "3", "4", "5", "6", "7", "8", "9"}

\* An unsigned decimal literal: digits, digits.digits, digits. or .digits
IsUnsignedDecimal(s) ==
  LET dot == IndexFrom(s, ".", 1)
  IN  IF dot = 0 THEN s # "" /\ IsDigits(s)
      ELSE /\ Len(s) > 1
           /\ IsDigits(SubSeq(s, 1, dot - 1))
           /\ IsDigits(SubSeq(s, dot + 1, Len(s)))

\* isNaN(Number(s)) for a string s: Number trims white space, reads the
\* empty string as 0 and otherwise a signed decimal literal or Infinity
\* (hexadecimal and exponent forms are not among the inputs).
IsNaNNumber(s) ==
  LET t == Trim(s)
      u == IF t # "" /\ SubSeq(t, 1, 1) \in {"+", "-"}
           THEN SubSeq(t, 2, Len(t)) ELSE t
  IN  ~(t = "" \/ u = "Infinity" \/ IsUnsignedDecimal(u))

\* const [width, height] = value.split(sep); the test that follows it.
\* A value without a split method throws a TypeError.
ValidatePair(value, sep, message) ==
  IF value.t # "string"
  THEN Throw(Exception("TypeError", "split is not a function", "validation"))
  ELSE LET parts == Split(value.v, sep)
           width == parts[1]
           height == IF Len(parts) >= 2 THEN parts[2] ELSE ""
       IN  IF width = "" \/ height = "" \/ IsNaNNumber(width) \/ IsNaNNumber(height)
           THEN Invalid(message)
           ELSE Ok

VideoGenerate(request) ==
  LET models == Get(request, "models")
      prompt == Get(request, "prompt")
      duration == Default(Get(request, "duration"), Num(6))
      loop == Default(Get(request, "loop"), Bool(FALSE))
      aspect_ratio == Default(Get(request, "aspect_ratio"), Str("16:9"))
      fps == Default(Get(request, "fps"), Num(24))
      dimension == Get(request, "dimension")
      resolution == Get(request, "resolution")
      seed == Get(request, "seed")
      params == Default(Get(request, "model_specific_params"), Obj([x \in {} |-> Undef]))
      ratioCheck == ValidatePair(aspect_ratio, ":",
        "aspect_ratio must be in the format 'width:height' (e.g., '16:9')")
      dimensionCheck == ValidatePair(dimension, "x",
        "dimension must be in the format 'widthxheight' (e.g., '1280x720')")
  IN  IF ~validateModels(models).ok THEN validateModels(models)
      ELSE IF ~validateNonEmptyString(prompt, "prompt").ok
      THEN validateNonEmptyString(prompt, "prompt")
      ELSE IF duration # Undef /\ (duration.t # "number" \/ NumLessEq(duration, 0))
      THEN Invalid("duration must be a positive number")
      ELSE IF loop # Undef /\ loop.t # "boolean"
      THEN Invalid("loop must be a boolean")
      ELSE IF aspect_ratio # Undef /\ ~ratioCheck.ok THEN ratioCheck
      ELSE IF fps # Undef /\ (fps.t # "number" \/ NumLessEq(fps, 0))
      THEN Invalid("fps must be a positive number")
      ELSE IF dimension # Undef /\ ~dimensionCheck.ok THEN dimensionCheck
      ELSE IF seed # Undef /\ (seed.t # "number" \/ ~IsInteger(seed))
      THEN Invalid("seed must be an integer")
      ELSE IF ~validateParamsLoose(params).ok THEN validateParamsLoose(params)
      ELSE Send("/video/generate",
                Obj([models |-> models, prompt |-> prompt, duration |-> duration,
                     loop |-> loop, aspect_ratio |-> aspect_ratio, fps |-> fps,
                     dimension |-> dimension, resolution |-> resolution,
                     seed |-> seed, model_specific_params |-> params]))

\* The stub: the request to /video/status is commented out.
StatusStub ==
  Obj([status |-> Str("not available"),
       message |-> Str("This feature is not available yet")])

get_video_statusAlways(requestId) == Return(StatusStub)
get_video_status(requestId) ==
  IF ~validateNonEmptyString(requestId, "request_id").ok
  THEN validateNonEmptyString(requestId, "request_id")
  ELSE Return(StatusStub)

(***************************************************************************)
(* utils: processFile, as far as the image and audio modules observe it.   *)
(***************************************************************************)
MAX_FILE_SIZE == 20971520

SUPPORTED_EXTENSIONS(type) ==
  CASE type = "image" -> {".jpg", ".jpeg", ".png", ".gif", ".bmp"}
    [] type = "audio" -> {".mp3", ".wav", ".ogg", ".m4a", ".aac"}
    [] type = "video" -> {".mp4", ".mov", ".avi", ".webm"}
    [] OTHER -> {".pdf"}

\* Array.from(SUPPORTED_EXTENSIONS[type]).join(", ")
SupportedList(type) ==
  CASE type = "image" -> ".jpg, .jpeg, .png, .gif, .bmp"
    [] type = "audio" -> ".mp3, .wav, .ogg, .m4a, .aac"
    [] type = "video" -> ".mp4, .mov, .avi, .webm"
    [] OTHER -> ".pdf"

\* The position of the last sep in s, or 0.
RECURSIVE LastIndexFrom(_, _, _)
LastIndexFrom(s, sep, i) ==
  IF i < 1 THEN 0
  ELSE IF SubSeq(s, i, i + Len(sep) - 1) = sep THEN i
  ELSE LastIndexFrom(s, sep, i - 1)
LastIndexOf(s, sep) == LastIndexFrom(s, sep, Len(s) - Len(sep) + 1)

\* path.basename and path.extname
Basename(p) == SubSeq(p, LastIndexOf(p, "/") + 1, Len(p))
ExtName(p) ==
  LET b == Basename(p)
      i == LastIndexOf(b, ".")
  IN  IF i <= 1 THEN "" ELSE SubSeq(b, i, Len(b))

UpperCase == "ABCDEFGHIJKLMNOPQRSTUVWXYZ"
LowerCase == "abcdefghijklmnopqrstuvwxyz"
\* String.prototype.toLowerCase
RECURSIVE ToLowerCase(_)
ToLowerCase(s) ==
  IF s = "" THEN ""
  ELSE LET c == SubSeq(s, 1, 1)
           i == IndexFrom(UpperCase, c, 1)
       IN  (IF i = 0 THEN c ELSE SubSeq(LowerCase, i, i))
             \o ToLowerCase(SubSeq(s, 2, Len(s)))

\* new URL(filePath) succeeds (the inputs use no scheme but http, https, ftp).
IsUrl(s) ==
  StartsWith(s, "http://") \/ StartsWith(s, "https://") \/ StartsWith(s, "ftp://")

\* url.pathname: what follows the host, without query and fragment.
UrlPathname(s) ==
  LET rest == SubSeq(s, IndexFrom(s, "://", 1) + 3, Len(s))
      slash == IndexFrom(rest, "/", 1)
      path == IF slash = 0 THEN "/" ELSE SubSeq(rest, slash, Len(rest))
      q == IndexFrom(path, "?", 1)
      noq == IF q = 0 THEN path ELSE SubSeq(path, 1, q - 1)
      h == IndexFrom(noq, "#", 1)
  IN  IF h = 0 THEN noq ELSE SubSeq(noq, 1, h - 1)

\* (size / 1024 / 1024).toFixed(2)
ToFixed2MB(size) ==
  LET whole == size \div 1048576
      hundredths == ((size % 1048576) * 200 + 1048576) \div 2097152
  IN  IF hundredths = 100 THEN ToString(whole + 1) \o ".00"
      ELSE ToString(whole) \o "." \o (IF hundredths < 10 THEN "0" ELSE "")
             \o ToString(hundredths)

SizeError(size) ==
  Exception("Error",
            "File size (" \o ToFixed2MB(size) \o "MB) exceeds max limit (20MB)",
            "file")

\* What the file system and the download do during one call: the outcome of
\* the download, what stat finds at a local path, and the size of the file.
FileEnvs ==
  [download : {"ok", "status", "error", "typeerror"},
   stat : {"file", "directory", "ENOENT"},
   size : {1024, MAX_FILE_SIZE, MAX_FILE_SIZE + 1}]

\* A call's result with the number of file-system and network operations
\* it started.
Io(result, n) == [result |-> result, io |-> n]

\* The local-file branch.
ProcessLocalFile(filePath, type, env, n) ==
  LET absolutePath == "/cwd/" \o Trim(filePath)
      fileExt == ToLowerCase(ExtName(absolutePath))
  IN  IF env.stat = "ENOENT"
      THEN Io(Throw(Exception("Error", "File not found: " \o filePath, "file")),
              n + 1)
      ELSE IF env.stat # "file"
      THEN Io(Throw(Exception("Error", "Not a file: " \o filePath, "file")), n + 1)
      ELSE IF env.size > MAX_FILE_SIZE THEN Io(Throw(SizeError(env.size)), n + 1)
      ELSE IF fileExt \notin SUPPORTED_EXTENSIONS(type)
      THEN Io(Throw(Exception("Error",
                "File type '" \o fileExt \o "' not supported for " \o type
                  \o ". Supported types: " \o SupportedList(type), "file")),
              n + 1)
      ELSE Io(Return([buffer |-> env.size, filename |-> Basename(absolutePath)]),
              n + 2)

\* processFile: the URL branch, falling into the local branch on a TypeError.
processFile(filePath, type, env) ==
  IF ~IsUrl(filePath) THEN ProcessLocalFile(filePath, type, env, 0)
  ELSE LET fileExt == ToLowerCase(ExtName(UrlPathname(filePath)))
           filename == Basename(UrlPathname(filePath))
       IN  IF fileExt \notin SUPPORTED_EXTENSIONS(type)
           THEN Io(Throw(Exception("Error",
                     "URL file type '" \o fileExt \o "' not supported for " \o type
                       \o ". Supported types: " \o SupportedList(type), "file")),
                   0)
           ELSE IF env.download = "status"
           THEN Io(Throw(Exception("Error", "Failed to download file: Not Found",
                                   "file")), 3)
           ELSE IF env.download = "error"
           THEN Io(Throw(Exception("Error", "getaddrinfo ENOTFOUND example.com",
                                   "file")), 3)
           ELSE IF env.download = "typeerror"
           THEN ProcessLocalFile(filePath, type, [env EXCEPT !.stat = "ENOENT"], 2)
           ELSE IF env.size > MAX_FILE_SIZE THEN Io(Throw(SizeError(env.size)), 4)
           ELSE Io(Return([buffer |-> env.size, filename |-> filename]), 5)

(***************************************************************************)
(* modules/Image: AlleImage.edit; modules/Audio: AlleAudio.stt.            *)
(***************************************************************************)
\* The statements of edit before its try block.
ImageEdit(request) ==
  LET models == Get(request, "models")
      prompt == Get(request, "prompt")
      image_file == Get(request, "image_file")
  IN  FirstFailure(
        <<validateModels(models),
          validateNonEmptyString(prompt, "prompt"),
          validateNonEmptyString(image_file, "image_file"),
          Send("/image/edit", Obj([models |-> models, prompt |-> prompt]))>>, 1)

\* The catch block of edit.
ImageEditCatch(error) ==
  ValidationError(Str("Failed to process image file: " \o error.message))

\* The statements of stt before its try block.
stt(request) ==
  LET models == Get(request, "models")
      audio_file == Get(request, "audio_file")
      params == Default(Get(request, "model_specific_params"), Obj([x \in {} |-> Undef]))
  IN  IF ~validateModels(models).ok THEN validateModels(models)
      ELSE IF ~validateSingleModel(models, "speech-to-text").ok
      THEN validateSingleModel(models, "speech-to-text")
      ELSE IF ~validateNonEmptyString(audio_file, "audio_file").ok
      THEN validateNonEmptyString(audio_file, "audio_file")
      ELSE IF ~validateParamsLoose(params).ok THEN validateParamsLoose(params)
      ELSE Send("/audio/stt",
                Obj([models |-> models, model_specific_params |-> params]))

\* The catch block of stt.
SttCatch(error) == ValidationError(Str(" " \o error.message))

\* Building the FormData after processFile: Object.keys(null) throws.
BuildForm(operation, body, file) ==
  IF operation = "audio.stt" /\ Get(body, "model_specific_params") = Null
  THEN Throw(Exception("TypeError", "Cannot convert undefined or null to object",
                       "form"))
  ELSE Return(Obj([fields |-> body, file |-> Obj([buffer |-> Num(file.buffer),
                                                  filename |-> Str(file.filename)])]))

(***************************************************************************)
(* The client: one invocation of a public operation at a time.             *)
(***************************************************************************)
ChatOps == {"chat.completions", "chat.combination", "chat.comparison", "chat.search"}
FileOps == {"image.edit", "audio.stt"}
\* The operations that hand a request to the transport.
TransmittingOps ==
  ChatOps \cup FileOps
    \cup {"image.generate", "audio.generate", "audio.tts", "video.generate"}

\* The transport function a module uses for an operation.
TransportOf(operation) ==
  IF operation \in FileOps THEN "makeFormDataRequest" ELSE "makeRequest"

\* The sequences over S of length at most n.
SeqsUpTo(S, n) == UNION {[1..k -> S] : k \in 0..n}

ModelElements == {Str("gpt-4o"), Str("yi-large"), Num(4)}
ModelsValues ==
  {Undef, Null, Str("gpt-4o")} \cup {Arr(a) : a \in SeqsUpTo(ModelElements, MaxModels)}

TextContent == Obj([type |-> Str("text"), text |-> Str("What is photosynthesis?")])
MessagesValues ==
  {Undef, Arr(<<>>),
   Arr(<<Obj([user |-> Arr(<<TextContent>>)])>>),
   Arr(<<Obj([system |-> Arr(<<TextContent>>)]),
         Obj([user |-> Arr(<<TextContent>>)])>>),
   Arr(<<Obj([role |-> Str("user")])>>),
   Arr(<<Obj([user |-> Arr(<<Obj([type |-> Str("html")])>>)])>>)}

PromptValues == {Undef, Num(5), Str(""), Str("  "), Str("a red fox")}
ImageFileValues ==
  {Undef, Str("  "), Str("./input.jpg"), Str("./notes.txt"),
   Str("https://example.com/image.PNG"), Str("https://example.com/page.html")}
AudioFileValues ==
  {Undef, Str("  "), Str("./speech.mp3"), Str("./notes.txt"),
   Str("https://example.com/speech.wav?x=1"), Str("https://example.com/page.html")}
ParamsValues == {Undef, Null, Str("fast"), Obj([quality |-> Str("hd")])}

\* A valid chat request carrying one of the optional numeric parameters.
ChatRequestWith(field, value) ==
  Obj([k \in {"models", "messages", field} |->
         CASE k = "models" -> Arr(<<Str("gpt-4o")>>)
           [] k = "messages" -> Arr(<<Obj([user |-> Arr(<<TextContent>>)])>>)
           [] OTHER -> value])
NumericFields ==
  {"temperature", "frequency_penalty", "presence_penalty", "max_tokens"}
NumericValues == {Num(1), Num(3), Num(0 - 3), Frac(0), Str("high"), NaN}

ChatRequests ==
  {Obj([models |-> m, messages |-> g]) : m \in ModelsValues, g \in MessagesValues}
    \cup {ChatRequestWith(f, v) : f \in NumericFields, v \in NumericValues}

\* A request that passes every check of image.generate, and its variations
\* in one optional property at a time.
ImageGenerateBase ==
  [models |-> Arr(<<Str("gpt-4o")>>), prompt |-> Str("a red fox"),
   width |-> Undef, height |-> Undef, n |-> Undef, style_preset |-> Undef,
   seed |-> Undef, model_specific_params |-> Undef]
ImageGenerateRequests ==
  {Obj([ImageGenerateBase EXCEPT !.models = m, !.prompt = p]) :
     m \in ModelsValues, p \in PromptValues}
    \cup {Obj([ImageGenerateBase EXCEPT !.width = w]) :
            w \in {Num(63), Num(64), Frac(64), Str("64"), NaN}}
    \cup {Obj([ImageGenerateBase EXCEPT !.height = h]) : h \in {Num(63), Num(64)}}
    \cup {Obj([ImageGenerateBase EXCEPT !.n = k]) : k \in {Num(0), Num(1), Frac(1)}}
    \cup {Obj([ImageGenerateBase EXCEPT !.seed = z]) :
            z \in {Null, Num(7), Frac(7), Str("7")}}
    \cup {Obj([ImageGenerateBase EXCEPT !.style_preset = y]) :
            y \in {Null, Str("digital-art"), Num(1)}}
    \cup {Obj([ImageGenerateBase EXCEPT !.model_specific_params = q]) :
            q \in ParamsValues}

ImageEditRequests ==
  {Obj([models |-> m, prompt |-> p, image_file |-> f]) :
     m \in ModelsValues, p \in PromptValues, f \in ImageFileValues}

AudioGenerateRequests ==
  {Obj([models |-> m, prompt |-> p, model_specific_params |-> q]) :
     m \in ModelsValues, p \in PromptValues, q \in ParamsValues}

\* The request of the README's text-to-speech example.
ReadmeTtsRequest ==
  Obj([models |-> Arr(<<Str("elevenlabs-multilingual-v2"), Str("gpt-4o-mini-tts")>>),
       prompt |-> Str("Hello! You're listening to a test of a text-to-speech model..."),
       voice |-> Str("nova"),
       model_specific_params |->
         Obj([k \in {"gpt-4o-mini-tts"} |->
                Obj([voice |-> Str("alternative-voice")])])])

TtsRequests ==
  {Obj([models |-> m, prompt |-> p, voice |-> v, model_specific_params |-> q]) :
     m \in ModelsValues, p \in PromptValues,
     v \in {Undef, Str("alloy"), Num(3)}, q \in {Undef, Obj([quality |-> Str("hd")])}}
    \cup {ReadmeTtsRequest}

SttRequests ==
  {Obj([models |-> m, audio_file |-> f, model_specific_params |-> q]) :
     m \in ModelsValues, f \in AudioFileValues, q \in ParamsValues}

VideoGenerateBase ==
  [models |-> Arr(<<Str("gpt-4o")>>), prompt |-> Str("a red fox"),
   duration |-> Undef, loop |-> Undef, aspect_ratio |-> Undef, fps |-> Undef,
   dimension |-> Undef, resolution |-> Undef, seed |-> Undef,
   model_specific_params |-> Undef]
VideoGenerateRequests ==
  {Obj([VideoGenerateBase EXCEPT !.models = m, !.prompt = p]) :
     m \in ModelsValues, p \in PromptValues}
    \cup {Obj([VideoGenerateBase EXCEPT !.duration = d]) :
            d \in {Num(0), Num(6), Frac(0), Str("6"), NaN}}
    \cup {Obj([VideoGenerateBase EXCEPT !.loop = l]) : l \in {Bool(TRUE), Num(1)}}
    \cup {Obj([VideoGenerateBase EXCEPT !.aspect_ratio = r]) :
            r \in {Str("16:9"), Str("16:9:4"), Str("16:"), Str(" : "), Str("wide"),
                   Num(2), Null}}
    \cup {Obj([VideoGenerateBase EXCEPT !.fps = f]) : f \in {Num(24), Num(0), Str("24")}}
    \cup {Obj([VideoGenerateBase EXCEPT !.dimension = d]) :
            d \in {Str("1280x720"), Str("1280x"), Str("1280x720x3"), Num(720), Null}}
    \cup {Obj([VideoGenerateBase EXCEPT !.seed = z]) :
            z \in {Null, Num(8), Frac(8), Str("8")}}
    \cup {Obj([VideoGenerateBase EXCEPT !.model_specific_params = q]) :
            q \in ParamsValues}

RequestIdValues == {Undef, Num(12), Str(""), Str("  "), Str("alleai-F")}

\* The exchanges the client's transport calls are run against: every kind
\* of status of the table, a JSON result, a JSON error body and an HTML page.
ClientStatuses ==
  Statuses \cap {200, 204, 302, 400, 401, 403, 404, 418, 429, 500, 502, 503, 504}
ClientBodies ==
  {JsonBody(Obj([message |-> Str("done")])),
   JsonBody(MkObj(Absent, Str("bad field"), Absent)),
   TextBody("<!DOCTYPE html><html><body>502</body></html>")}
ClientExchanges(fn) ==
  {Completed(Response(st, b)) : st \in ClientStatuses, b \in ClientBodies}
    \cup FailedExchanges(fn)

Init ==
  /\ pc = "idle"
  /\ op = "none"
  /\ req = Undef
  /\ pending = NoPending
  /\ exch = NoExchange
  /\ calls = <<>>
  /\ fileio = 0
  /\ thrown = NoOutcome
  /\ outcome = NoOutcome
  /\ NoFileActivity

\* The caller invokes operation with request; first is what the method does
\* before its first await: it throws, returns, or has a request to send.
Invoke(operation, request, first) ==
  /\ pc = "idle"
  /\ op' = operation
  /\ req' = request
  /\ exch' = NoExchange
  /\ calls' = <<>>
  /\ fileio' = 0
  /\ thrown' = NoOutcome
  /\ IF ~first.ok \/ operation \notin TransmittingOps
     THEN /\ pc' = "done"
          /\ outcome' = first
          /\ pending' = NoPending
     ELSE /\ pc' = IF operation \in FileOps THEN "file" ELSE "send"
          /\ outcome' = NoOutcome
          /\ pending' = first.data
  /\ UNCHANGED fvars

Completions == \E r \in ChatRequests : Invoke("chat.completions", r, completions(r))
Combination == \E r \in ChatRequests : Invoke("chat.combination", r, combination(r))
Comparison == \E r \in ChatRequests : Invoke("chat.comparison", r, comparison(r))
Search == \E r \in ChatRequests : Invoke("chat.search", r, search(r))
ImageGenerateCall ==
  \E r \in ImageGenerateRequests : Invoke("image.generate", r, ImageGenerate(r))
ImageEditCall == \E r \in ImageEditRequests : Invoke("image.edit", r, ImageEdit(r))
AudioGenerateCall ==
  \E r \in AudioGenerateRequests : Invoke("audio.generate", r, AudioGenerate(r))
TtsCall == \E r \in TtsRequests : Invoke("audio.tts", r, tts(r))
SttCall == \E r \in SttRequests : Invoke("audio.stt", r, stt(r))
VideoGenerateCall ==
  \E r \in VideoGenerateRequests : Invoke("video.generate", r, VideoGenerate(r))
GetVideoStatusCall ==
  \E id \in RequestIdValues :
    Invoke("video.get_video_status", id, get_video_status(id))

\* The catch block of the operation's own try statement.
OperationCatch(operation, error) ==
  IF operation = "image.edit" THEN ImageEditCatch(error) ELSE SttCatch(error)

FileOf(operation, request) ==
  IF operation = "image.edit" THEN Get(request, "image_file").v
  ELSE Get(request, "audio_file").v

\* edit / stt resume after processFile has settled: on an error the catch
\* block runs; else the FormData is built and the request is ready.
AwaitProcessFile ==
  /\ pc = "file"
  /\ \E env \in FileEnvs :
       LET type == IF op = "image.edit" THEN "image" ELSE "audio"
           file == processFile(FileOf(op, req), type, env)
           form == BuildForm(op, pending.body, file.result.data)
       IN  /\ fileio' = fileio + file.io
           /\ IF ~file.result.ok
              THEN /\ pc' = "done"
                   /\ outcome' = Throw(OperationCatch(op, file.result.error))
                   /\ pending' = pending
              ELSE IF ~form.ok
              THEN /\ pc' = "done"
                   /\ outcome' = Throw(OperationCatch(op, form.error))
                   /\ pending' = pending
              ELSE /\ pc' = "send"
                   /\ outcome' = outcome
                   /\ pending' = [pending EXCEPT !.body = form.data]
  /\ UNCHANGED <<op, req, exch, calls, thrown>>
  /\ UNCHANGED fvars

\* The method resumes after the transport call has settled: it returns what
\* the transport returned; what the transport threw passes through, except
\* in edit and stt, whose catch block receives it.
AwaitTransport ==
  /\ pc = "send"
  /\ \E x \in ClientExchanges(TransportOf(op)) :
       LET result == Transport(TransportOf(op), x)
       IN  /\ exch' = x
           /\ thrown' = result
           /\ outcome' = IF ~result.ok /\ op \in FileOps
                         THEN Throw(OperationCatch(op, result.error))
                         ELSE result
  /\ calls' = Append(calls, Call(TransportOf(op), pending))
  /\ pc' = "done"
  /\ UNCHANGED <<op, req, pending, fileio>>
  /\ UNCHANGED fvars

\* The caller has its result; the client is ready for the next invocation.
Settle ==
  /\ pc = "done"
  /\ pc' = "idle"
  /\ op' = "none"
  /\ req' = Undef
  /\ pending' = NoPending
  /\ exch' = NoExchange
  /\ calls' = <<>>
  /\ fileio' = 0
  /\ thrown' = NoOutcome
  /\ outcome' = NoOutcome
  /\ UNCHANGED fvars

Next ==
  \/ Completions
  \/ Combination
  \/ Comparison
  \/ Search
  \/ ImageGenerateCall
  \/ ImageEditCall
  \/ AudioGenerateCall
  \/ TtsCall
  \/ SttCall
  \/ VideoGenerateCall
  \/ GetVideoStatusCall
  \/ AwaitProcessFile
  \/ AwaitTransport
  \/ Settle

Spec == Init /\ [][Next]_vars

(***************************************************************************)
(* The chat validator applied to every request: validateRequestParameters  *)
(* is the first statement of completions, combination and search.          *)
(***************************************************************************)
BadTypeContent == Obj([type |-> Str("html")])
NoTypeContent == Obj([text |-> Str("What is photosynthesis?")])

\* A message entry with the given system / user / assistants properties
\* (Absent: the property is left out).
MkEntry(sy, u, a) ==
  LET all == [system |-> sy, user |-> u, assistants |-> a]
      keys == {k \in {"system", "user", "assistants"} : all[k] # Absent}
  IN  Obj([k \in keys |-> all[k]])

SystemValues ==
  {Absent, Null, Str(""), Str("be brief"), Arr(<<>>), Arr(<<TextContent>>),
   Arr(<<TextContent, BadTypeContent>>), Arr(<<NoTypeContent>>)}
UserValues ==
  {Absent, Null, Num(0), Bool(FALSE), Str(""), Str("hello"), Arr(<<>>),
   Arr(<<TextContent>>), Arr(<<BadTypeContent, TextContent>>),
   Arr(<<Str("hello")>>), Arr(<<Null>>)}
\* An assistants mapping with the values of two models, in this order.
AssistantsOf(first, second) ==
  Obj([k \in {"gpt-4o", "yi-large"} |-> IF k = "gpt-4o" THEN first ELSE second])

AssistantsValues ==
  {Absent, Null, Str("hello"), Arr(<<TextContent>>),
   Obj([x \in {} |-> Undef]),
   Obj([claude |-> Arr(<<TextContent>>)]),
   Obj([claude |-> Str("hello")]),
   AssistantsOf(Arr(<<TextContent>>), Null),
   Obj([claude |-> Arr(<<TextContent, NoTypeContent>>)])}

\* What an element of messages may be.
EntryValues ==
  {Null, Str("hello"), Arr(<<>>), Obj([role |-> Str("user")])}
    \cup {MkEntry(sy, u, a) :
            sy \in SystemValues, u \in UserValues, a \in AssistantsValues}

\* The entries of the longer messages arrays: a valid entry, entries whose
\* one invalid content object sits in user or under one assistants key, and
\* entries failing the earlier checks.
SeriesEntries ==
  {Null, Obj([role |-> Str("user")]),
   MkEntry(Absent, Arr(<<TextContent>>), Absent),
   MkEntry(Absent, Arr(<<BadTypeContent>>), Absent),
   MkEntry(Str("be brief"), Str("hello"), Absent),
   MkEntry(Absent, Absent, AssistantsOf(Arr(<<TextContent>>), Arr(<<TextContent>>))),
   MkEntry(Absent, Absent, AssistantsOf(Arr(<<BadTypeContent>>), Arr(<<TextContent>>))),
   MkEntry(Absent, Absent, AssistantsOf(Arr(<<TextContent>>), Arr(<<BadTypeContent>>)))}

ValidatedMessages ==
  {Undef, Null, Str("hello"), Arr(<<>>)}
    \cup {Arr(<<e>>) : e \in EntryValues}
    \cup {Arr(a) : a \in UNION {[1..k -> SeriesEntries] : k \in 2..MaxMessages}}

ValidatedRequests ==
  {Obj([models |-> m, messages |-> g]) :
     m \in ModelsValues, g \in ValidatedMessages}

InitValidate ==
  /\ pc = "validate"
  /\ op = "validateRequestParameters"
  /\ req \in ValidatedRequests
  /\ pending = NoPending
  /\ exch = NoExchange
  /\ calls = <<>>
  /\ fileio = 0
  /\ thrown = NoOutcome
  /\ outcome = NoOutcome
  /\ NoFileActivity

ValidateRequest ==
  /\ pc = "validate"
  /\ outcome' = validateRequestParameters(req)
  /\ pc' = "done"
  /\ UNCHANGED <<op, req, pending, exch, calls, fileio, thrown>>
  /\ UNCHANGED fvars

NextValidate == ValidateRequest

SpecValidate == InitValidate /\ [][NextValidate]_vars

(***************************************************************************)
(* Properties of the transport functions and the error classifier          *)
(* (checked under SpecTransport).                                          *)
(***************************************************************************)
\* The exchange completed with a non-2xx response and the call has ended.
ErrorResponseDone == pc = "done" /\ exch.done /\ ~ResponseOk(exch.response)

\* The errorMessage the classifier derived, as carried in details.message.
DerivedMessage == outcome.error.details.message

\* The kind and code the documented table gives for a status.
TableEntry(s) ==
  CASE s = 400 -> <<"InvalidRequestError", "INVALID_REQUEST">>
    [] s = 401 -> <<"AuthenticationError", "AUTH_ERROR">>
    [] s = 403 -> <<"AuthenticationError", "PERMISSION_DENIED">>
    [] s = 404 -> <<"APIError", "RESOURCE_NOT_FOUND">>
    [] s = 429 -> <<"RateLimitError", "RATE_LIMIT">>
    [] s = 500 -> <<"ServiceUnavailableError", "SERVICE_ERROR">>
    [] s = 502 -> <<"ServiceUnavailableError", "SERVICE_ERROR">>
    [] s = 503 -> <<"ServiceUnavailableError", "SERVICE_ERROR">>
    [] s = 504 -> <<"ServiceUnavailableError", "SERVICE_ERROR">>
    [] OTHER -> <<"APIError", "API_ERROR_" \o ToString(s)>>

\* The body text can be read and holds no HTML marker.
TextNotHtml(body) ==
  /\ body.text # Throws
  /\ ~Includes(body.text.v, DOCTYPE)
  /\ ~Includes(body.text.v, HTMLTAG)

\* The parsed body has a string details.raw holding an HTML marker.
RawHasHtml(body) ==
  /\ body.json # Throws
  /\ body.json.t = "object"
  /\ Get(body.json, "details").t = "object"
  /\ Get(Get(body.json, "details"), "raw").t = "string"
  /\ \/ Includes(Get(Get(body.json, "details"), "raw").v, DOCTYPE)
     \/ Includes(Get(Get(body.json, "details"), "raw").v, HTMLTAG)

\* The parsed body has a details.raw that is truthy and not a string.
RawNotString(body) ==
  /\ body.json # Throws
  /\ body.json.t = "object"
  /\ Get(body.json, "details").t = "object"
  /\ Truthy(Get(Get(body.json, "details"), "raw"))
  /\ Get(Get(body.json, "details"), "raw").t # "string"

HasProp(v, k) == v.t = "object" /\ k \in DOMAIN v.f

\* The error property as the message: as-is when a string, else stringified.
ErrorAsMessage(json) ==
  IF Get(json, "error").t = "string" THEN Get(json, "error")
  ELSE Str(JSONstringify(Get(json, "error")))

\* C2: for every outcome of the HTTP exchange (any status, any body, any
\* exception thrown by fetch or by serialising the body) makeRequest and
\* makeFormDataRequest either return the decoded body or throw an error of
\* one AlleAIError subtype; no untyped exception escapes.
C2_TaxonomyTotal ==
  pc = "done" =>
    \/ /\ outcome.ok
       /\ exch.done
       /\ ResponseOk(exch.response)
       /\ outcome.data = exch.response.body.json
    \/ /\ ~outcome.ok
       /\ IsAlleAIError(outcome.error)

\* An exception that is no typed error and no TypeError was thrown while the
\* request was prepared, and the caller received a typed APIError.
C2_Witness ==
  /\ pc = "done"
  /\ ~exch.done
  /\ exch.exc.kind = "RangeError"
  /\ ~outcome.ok
  /\ outcome.error.kind = "APIError"

\* C3: for every non-2xx status the error thrown has the kind and the code
\* of the fixed table, whatever the body is.
C3_StatusTable ==
  ErrorResponseDone =>
    /\ ~outcome.ok
    /\ <<outcome.error.kind, outcome.error.code>>
         = TableEntry(exch.response.status)

\* A 404 answered with a JSON body was classified as RESOURCE_NOT_FOUND.
C3_Witness ==
  /\ ErrorResponseDone
  /\ exch.response.status = 404
  /\ exch.response.body = JsonBody(MkObj(Absent, Str("bad field"), Absent))
  /\ outcome.error.kind = "APIError"
  /\ outcome.error.code = "RESOURCE_NOT_FOUND"

\* C4: every error produced for a non-2xx response carries the original
\* status of that response in its status field, with details equal to
\* {message, status}.
C4_OriginalStatus ==
  ErrorResponseDone =>
    /\ outcome.error.status = Num(exch.response.status)
    /\ outcome.error.details
         = [message |-> DerivedMessage, status |-> Num(exch.response.status)]
    /\ outcome.error.message = JsString(DerivedMessage)

\* C7: when fetch throws a network-layer exception, whatever its class and
\* message, the caller receives a ConnectionError with code CONNECTION_ERROR
\* whose details carry the exception's message.
C7_NetworkIsConnectionError ==
  (pc = "done" /\ ~exch.done /\ exch.exc.cause = "network") =>
    /\ ~outcome.ok
    /\ outcome.error.kind = "ConnectionError"
    /\ outcome.error.code = "CONNECTION_ERROR"
    /\ outcome.error.details = [originalError |-> Str(exch.exc.message)]

\* The case of C8 as stated: a non-2xx response whose body is not HTML
\* (neither in its text nor in details.raw) and parses as a JSON object
\* with a message or an error property.
C8_Case ==
  /\ ErrorResponseDone
  /\ TextNotHtml(exch.response.body)
  /\ exch.response.body.json # Throws
  /\ ~RawHasHtml(exch.response.body)
  /\ \/ HasProp(exch.response.body.json, "message")
     \/ HasProp(exch.response.body.json, "error")

\* C8 as stated: the derived message is the message property when present,
\* otherwise the error property (as-is when a string, else stringified).
C8_MessageWhenPresent ==
  C8_Case =>
    DerivedMessage
      = IF HasProp(exch.response.body.json, "message")
        THEN Get(exch.response.body.json, "message")
        ELSE ErrorAsMessage(exch.response.body.json)

\* C8 as amended: with details.raw not a truthy non-string, the derived
\* message is the message property when it is truthy, otherwise the error
\* property when that is truthy (as-is when a string, else stringified);
\* status 400 with {"message":"bad field"} gives InvalidRequestError,
\* 'bad field', INVALID_REQUEST.
C8_MessageWhenTruthy ==
  (C8_Case /\ ~RawNotString(exch.response.body)) =>
    LET json == exch.response.body.json
    IN  /\ Truthy(Get(json, "message")) => DerivedMessage = Get(json, "message")
        /\ (~Truthy(Get(json, "message")) /\ Truthy(Get(json, "error")))
             => DerivedMessage = ErrorAsMessage(json)
        /\ outcome.error.message = JsString(DerivedMessage)
        /\ (exch.response.status = 400
              /\ json = MkObj(Absent, Str("bad field"), Absent))
             => /\ outcome.error.kind = "InvalidRequestError"
                /\ outcome.error.message = "bad field"
                /\ outcome.error.code = "INVALID_REQUEST"

\* A body carrying both message and error was classified with its message.
C8_Witness ==
  /\ C8_Case
  /\ exch.response.status = 400
  /\ exch.response.body.json = MkObj(Absent, Str("bad field"), Str("boom"))
  /\ outcome.error.message = "bad field"

\* The case of C9: a non-2xx response whose body is not HTML and from which
\* no message can be taken.
C9_ParseFails ==
  /\ ErrorResponseDone
  /\ TextNotHtml(exch.response.body)
  /\ exch.response.body.json = Throws

C9_NoMessageNoError ==
  /\ ErrorResponseDone
  /\ TextNotHtml(exch.response.body)
  /\ exch.response.body.json # Throws
  /\ ~RawHasHtml(exch.response.body)
  /\ ~HasProp(exch.response.body.json, "message")
  /\ ~HasProp(exch.response.body.json, "error")

\* C9 as stated: in both cases the derived message is the fixed fallback.
C9_FallbackWhenNoMessage ==
  (C9_ParseFails \/ C9_NoMessageNoError) => DerivedMessage = FallbackMessage

\* C9 as amended: the derived message is the fixed fallback when JSON
\* parsing fails; when the body parses to a value other than null that has
\* no truthy message or error property (and no truthy non-string
\* details.raw) it is 'Request failed with status: <status>'.
C9_FallbackOnlyWhenParseFails ==
  /\ C9_ParseFails => DerivedMessage = FallbackMessage
  /\ (/\ C9_NoMessageNoError
      /\ exch.response.body.json # Null
      /\ ~RawNotString(exch.response.body))
       => /\ DerivedMessage = DefaultMessage(exch.response.status)
          /\ outcome.error.message
               = "Request failed with status: " \o ToString(exch.response.status)

\* An empty JSON object at status 500 gave the status-bearing message.
C9_Witness ==
  /\ C9_NoMessageNoError
  /\ exch.response.status = 500
  /\ exch.response.body.json = MkObj(Absent, Absent, Absent)
  /\ outcome.error.message = "Request failed with status: 500"

\* C10: a response of an error status whose body text holds an HTML marker,
\* or whose parsed body has a details.raw holding one, gets the fixed
\* fallback message even when the body carries message or error, and the
\* kind and code of the status table.
C10_HtmlFallback ==
  (/\ ErrorResponseDone
   /\ exch.response.body.text # Throws
   /\ \/ ~TextNotHtml(exch.response.body)
      \/ RawHasHtml(exch.response.body)) =>
    /\ DerivedMessage = FallbackMessage
    /\ outcome.error.message = FallbackMessage.v
    /\ <<outcome.error.kind, outcome.error.code>>
         = TableEntry(exch.response.status)

\* A JSON body whose text is escaped, with HTML in details.raw and a message
\* of its own, was given the fallback message at status 429.
C10_Witness ==
  /\ ErrorResponseDone
  /\ exch.response.status = 429
  /\ TextNotHtml(exch.response.body)
  /\ RawHasHtml(exch.response.body)
  /\ Get(exch.response.body.json, "message") = Str("bad field")
  /\ outcome.error.message = FallbackMessage.v
  /\ outcome.error.kind = "RateLimitError"

\* The exchange completed with a 2xx response whose body is no JSON.
UndecodableSuccess ==
  /\ pc = "done"
  /\ exch.done
  /\ ResponseOk(exch.response)
  /\ exch.response.body.json = Throws

\* C11: a 2xx response whose body cannot be decoded as JSON makes the
\* transport function throw APIError with code INVALID_RESPONSE and the
\* response's status; the code is not the status table's and the catch block
\* does not turn it into UNEXPECTED_ERROR or CONNECTION_ERROR.
C11_InvalidResponse ==
  UndecodableSuccess =>
    /\ ~outcome.ok
    /\ outcome.error.kind = "APIError"
    /\ outcome.error.code = "INVALID_RESPONSE"
    /\ outcome.error.code # TableEntry(exch.response.status)[2]
    /\ outcome.error.status = Num(exch.response.status)
    /\ outcome.error.message = "Server returned invalid JSON response"
    /\ outcome.error.details = [message |-> Str("Invalid JSON response")]

\* An HTML page served with a 2xx status was reported as INVALID_RESPONSE.
C11_Witness ==
  /\ UndecodableSuccess
  /\ exch.response.body.text # Throws
  /\ Includes(exch.response.body.text.v, DOCTYPE)
  /\ op = "makeFormDataRequest"
  /\ outcome.error.code = "INVALID_RESPONSE"

(***************************************************************************)
(* Properties of the chat validator (checked under SpecValidate).          *)
(***************************************************************************)
Validated == pc = "done" /\ op = "validateRequestParameters"
Accepted == Validated /\ outcome.ok
Rejected == Validated /\ ~outcome.ok

ReqModels == Get(req, "models")
ReqMessages == Get(req, "messages")

\* models is a non-empty array; its elements are all strings.
ModelsShapeOk(models) == models.t = "array" /\ models.a # <<>>
ModelsStringsOk(models) == \A i \in DOMAIN models.a : models.a[i].t = "string"
\* messages is a non-empty array.
MessagesShapeOk(messages) == messages.t = "array" /\ messages.a # <<>>

\* A content item is an object whose type is one of the four media types.
ContentOk(c) ==
  /\ c.t = "object"
  /\ "type" \in DOMAIN c.f
  /\ c.f["type"] \in {Str("text"), Str("audio_url"), Str("image_url"),
                       Str("video_url")}

EntryIsObject(e) == e.t \in {"object", "array"}
EntryHasKey(e) ==
  e.t = "object" /\ DOMAIN e.f \cap {"system", "user", "assistants"} # {}
Present(e, k) == e.t = "object" /\ k \in DOMAIN e.f

\* The key is present with a value the validator looks at: a falsy value is
\* passed over (the subject of C14).
Looked(e, k) == Present(e, k) /\ Truthy(e.f[k])

\* The check of system or user fails: not an array, or an item is invalid.
RoleViolation(e, k) ==
  /\ Looked(e, k)
  /\ \/ e.f[k].t # "array"
     \/ \E i \in DOMAIN e.f[k].a : ~ContentOk(e.f[k].a[i])

\* The check of assistants fails: not a mapping, or a value is no array, or
\* an item of a value is invalid.
AssistantsViolation(e) ==
  /\ Looked(e, "assistants")
  /\ \/ e.f["assistants"].t # "object"
     \/ \E m \in DOMAIN e.f["assistants"].f :
          LET contents == e.f["assistants"].f[m]
          IN  \/ contents.t # "array"
              \/ \E j \in DOMAIN contents.a : ~ContentOk(contents.a[j])

\* The first check of the documented order that an entry fails, or "none".
EntryStage(e) ==
  IF ~EntryIsObject(e) THEN "object"
  ELSE IF ~EntryHasKey(e) THEN "keys"
  ELSE IF RoleViolation(e, "system") THEN "system"
  ELSE IF RoleViolation(e, "user") THEN "user"
  ELSE IF AssistantsViolation(e) THEN "assistants"
  ELSE "none"

\* The first check of the documented order that the request fails, with the
\* index (from 0) of the entry it is about.
ExpectedStage(request) ==
  LET models == Get(request, "models")
      messages == Get(request, "messages")
  IN  IF ~ModelsShapeOk(models) THEN [stage |-> "models", index |-> 0]
      ELSE IF ~ModelsStringsOk(models) THEN [stage |-> "elements", index |-> 0]
      ELSE IF ~MessagesShapeOk(messages) THEN [stage |-> "messages", index |-> 0]
      ELSE LET bad == {i \in DOMAIN messages.a : EntryStage(messages.a[i]) # "none"}
           IN  IF bad = {} THEN [stage |-> "none", index |-> 0]
               ELSE LET i == CHOOSE j \in bad : \A k \in bad : j <= k
                    IN  [stage |-> EntryStage(messages.a[i]), index |-> i - 1]

\* The error message belongs to the given check.
MessageIsFor(message, expected) ==
  CASE expected.stage = "models" ->
         message = "models must be a non-empty array of strings"
    [] expected.stage = "elements" ->
         message = "all elements in models must be strings"
    [] expected.stage = "messages" ->
         message = "messages must be a non-empty array"
    [] expected.stage = "object" ->
         message = "messages[" \o ToString(expected.index) \o "] must be an object"
    [] expected.stage = "keys" ->
         message = "messages[" \o ToString(expected.index)
                     \o "] must have at least one of: system, user, assistants"
    [] expected.stage = "system" -> StartsWith(message, "system")
    [] expected.stage = "user" -> StartsWith(message, "user")
    [] expected.stage = "assistants" -> StartsWith(message, "assistants")
    [] OTHER -> FALSE

EntryContentsOk(e) ==
  /\ \A k \in {"system", "user"} :
       (Present(e, k) /\ e.f[k].t = "array") =>
         \A i \in DOMAIN e.f[k].a : ContentOk(e.f[k].a[i])
  /\ (Present(e, "assistants") /\ e.f["assistants"].t = "object") =>
       \A m \in DOMAIN e.f["assistants"].f :
         LET contents == e.f["assistants"].f[m]
         IN  contents.t = "array" =>
               \A j \in DOMAIN contents.a : ContentOk(contents.a[j])

\* C13: in every request the chat validator accepts, each element of every
\* system list, user list and assistants value list of every entry is an
\* object whose type is text, audio_url, image_url or video_url; a request
\* with an item of missing or unknown type is rejected.
C13_AcceptedContentsTyped ==
  Accepted =>
    \A i \in DOMAIN ReqMessages.a : EntryContentsOk(ReqMessages.a[i])

\* A request with valid items in system, user and assistants was accepted.
C13_Witness ==
  /\ Accepted
  /\ \E i \in DOMAIN ReqMessages.a :
       LET e == ReqMessages.a[i]
       IN  /\ Present(e, "system") /\ e.f["system"].t = "array"
           /\ e.f["system"].a # <<>>
           /\ Present(e, "user") /\ e.f["user"].t = "array"
           /\ e.f["user"].a # <<>>
           /\ Present(e, "assistants") /\ e.f["assistants"].t = "object"
           /\ \E m \in DOMAIN e.f["assistants"].f :
                e.f["assistants"].f[m] = Arr(<<TextContent>>)

\* The containers of an entry are well formed: system and user, when
\* present, hold arrays; assistants, when present, holds a mapping (no
\* array) whose values are all arrays.
ContainersOk(e) ==
  /\ \A k \in {"system", "user"} : Present(e, k) => e.f[k].t = "array"
  /\ Present(e, "assistants") =>
       /\ e.f["assistants"].t = "object"
       /\ \A m \in DOMAIN e.f["assistants"].f :
            e.f["assistants"].f[m].t = "array"

\* C14: a chat request is accepted only if in every entry each present
\* system / user key holds an array and a present assistants key holds a
\* non-array mapping whose values are arrays; null, false, 0 and "" under
\* such a key are rejected like any other value.
C14_ContainersWellFormed ==
  Accepted =>
    \A i \in DOMAIN ReqMessages.a : ContainersOk(ReqMessages.a[i])

\* The places of the invalid content items of an entry with well-formed
\* containers: <<key, position>> in system / user, <<model, position>> in
\* assistants.
BadItems(e) ==
  UNION ({ {<<k, i>> : i \in {j \in DOMAIN e.f[k].a : ~ContentOk(e.f[k].a[j])}} :
             k \in {x \in {"system", "user"} : Present(e, x)} }
         \cup
         { {<<m, i>> : i \in {j \in DOMAIN e.f["assistants"].f[m].a :
                                ~ContentOk(e.f["assistants"].f[m].a[j])}} :
             m \in IF Present(e, "assistants")
                   THEN DOMAIN e.f["assistants"].f ELSE {} })

\* The request is valid but for one invalid content item.
SingleInvalidItem(request) ==
  LET messages == Get(request, "messages")
  IN  /\ ModelsShapeOk(Get(request, "models"))
      /\ ModelsStringsOk(Get(request, "models"))
      /\ MessagesShapeOk(messages)
      /\ \A i \in DOMAIN messages.a :
           EntryHasKey(messages.a[i]) /\ ContainersOk(messages.a[i])
      /\ \E i \in DOMAIN messages.a :
           /\ Cardinality(BadItems(messages.a[i])) = 1
           /\ \A j \in DOMAIN messages.a \ {i} : BadItems(messages.a[j]) = {}

\* The request with every invalid content item replaced by a valid one.
FixItems(contents) ==
  Arr([i \in DOMAIN contents.a |->
         IF ContentOk(contents.a[i]) THEN contents.a[i] ELSE TextContent])
FixEntry(e) ==
  Obj([k \in DOMAIN e.f |->
         IF k = "assistants"
         THEN Obj([m \in DOMAIN e.f[k].f |-> FixItems(e.f[k].f[m])])
         ELSE FixItems(e.f[k])])
FixRequest(request) ==
  Obj([request.f EXCEPT !["messages"] =
         Arr([i \in DOMAIN request.f["messages"].a |->
                FixEntry(request.f["messages"].a[i])])])

\* The request with its messages in reverse order, and with the values of
\* the two models of every two-model assistants mapping exchanged.
ReverseMessages(request) ==
  LET a == request.f["messages"].a
  IN  Obj([request.f EXCEPT !["messages"] =
             Arr([i \in DOMAIN a |-> a[Len(a) + 1 - i]])])
SwapModels(e) ==
  IF Present(e, "assistants")
       /\ DOMAIN e.f["assistants"].f = {"gpt-4o", "yi-large"}
  THEN Obj([e.f EXCEPT !["assistants"] =
              AssistantsOf(e.f["assistants"].f["yi-large"],
                           e.f["assistants"].f["gpt-4o"])])
  ELSE e
SwapAssistants(request) ==
  Obj([request.f EXCEPT !["messages"] =
         Arr([i \in DOMAIN request.f["messages"].a |->
                SwapModels(request.f["messages"].a[i])])])

\* The requests that differ from request only in where its single invalid
\* content item is: at another messages index or under another model key.
Relocations(request) ==
  {r \in {ReverseMessages(request), SwapAssistants(request)} :
     /\ r # request
     /\ SingleInvalidItem(r)
     /\ FixRequest(r) = FixRequest(request)}

\* C15: the message of a rejected content item identifies where the item
\* is: a request with a single invalid content item gets a message that
\* differs from the message of every request that differs from it only in
\* the messages index or the assistants model key of that item.
C15_PathIdentifiesLocation ==
  (Validated /\ SingleInvalidItem(req)) =>
    /\ ~outcome.ok
    /\ \A r \in Relocations(req) :
         validateRequestParameters(r).error.message # outcome.error.message

(***************************************************************************)
(* Properties of the public operations (checked under Spec).               *)
(***************************************************************************)
\* C1: a typed error thrown by the transport call reaches the caller of the
\* operation unchanged in kind, code and status, in every operation.
C1_TypedErrorUnchanged ==
  (pc = "done" /\ calls # <<>> /\ ~thrown.ok) =>
    /\ ~outcome.ok
    /\ outcome.error.kind = thrown.error.kind
    /\ outcome.error.code = thrown.error.code
    /\ outcome.error.status = thrown.error.status

\* models is missing, not an array, empty, or holds a non-string element.
ModelsMalformed(models) ==
  \/ models.t # "array"
  \/ models.a = <<>>
  \/ \E i \in DOMAIN models.a : models.a[i].t # "string"

\* The message documented for a malformed models value.
ModelsMessage(models) ==
  IF models.t # "array" \/ models.a = <<>>
  THEN "models must be a non-empty array of strings"
  ELSE "all elements in models must be strings"

\* C5: in every operation that transmits a request, a request with a
\* malformed models value is never handed to the transport, and the call
\* fails with the message for that value.
C5_MalformedModelsNeverSent ==
  (op \in TransmittingOps /\ ModelsMalformed(Get(req, "models"))) =>
    /\ calls = <<>>
    /\ pc = "done" =>
         /\ ~outcome.ok
         /\ outcome.error.kind = "ValidationError"
         /\ outcome.error.message = ModelsMessage(Get(req, "models"))

\* C6: an invocation that fails with a ValidationError has made no
\* transport call and started no file read or download.
C6_ValidationBeforeIO ==
  (pc = "done" /\ ~outcome.ok /\ outcome.error.kind = "ValidationError") =>
    /\ calls = <<>>
    /\ fileio = 0

\* models is an array of two or more strings.
SeveralModels(models) ==
  ModelsShapeOk(models) /\ ModelsStringsOk(models) /\ Len(models.a) >= 2

OnlyOneModelMessage(operation) ==
  "Only one model is supported for "
    \o (IF operation = "audio.tts" THEN "text-to-speech" ELSE "speech-to-text")
    \o " processing at this time"

C17_ReadmeTtsWorks ==
  (op = "audio.tts" /\ req = ReadmeTtsRequest /\ pc = "done") =>
    /\ Len(calls) = 1
    /\ calls[1].fn = "makeRequest"
    /\ calls[1].endpoint = "/audio/tts"
    /\ outcome.ok \/ outcome.error.kind # "ValidationError"

\* A numeric parameter of a chat request that is no number or lies outside
\* its documented range.
OutOfRange(v, low, high) ==
  v.t # "number" \/ IsNaN(v) \/ NumLess(v, low) \/ ~NumLessEq(v, high)
NumericInvalid(request) ==
  \/ In("temperature", request) /\ OutOfRange(Get(request, "temperature"), 0, 2)
  \/ In("frequency_penalty", request)
       /\ OutOfRange(Get(request, "frequency_penalty"), 0 - 2, 2)
  \/ In("presence_penalty", request)
       /\ OutOfRange(Get(request, "presence_penalty"), 0 - 2, 2)
  \/ In("max_tokens", request) /\ Get(request, "max_tokens").t # "number"

\* C18: a chat request whose temperature, frequency_penalty,
\* presence_penalty or max_tokens is no number or is out of range is
\* rejected with a ValidationError and never handed to the transport.
C18_NumericValidated ==
  (op \in ChatOps /\ NumericInvalid(req)) =>
    /\ calls = <<>>
    /\ pc = "done" => (~outcome.ok /\ outcome.error.kind = "ValidationError")

\* The request is accepted once its seed is left out.
ValidWithoutSeed(operation, request) ==
  LET without == Obj([request.f EXCEPT !["seed"] = Undef])
  IN  IF operation = "image.generate" THEN ImageGenerate(without).ok
      ELSE VideoGenerate(without).ok

\* C19: image.generate and video.generate accept a request whose seed is
\* null: a request that is valid without its seed is sent when its seed is
\* null.
C19_NullSeedAccepted ==
  (/\ pc = "done"
   /\ op \in {"image.generate", "video.generate"}
   /\ Get(req, "seed") = Null
   /\ ValidWithoutSeed(op, req)) =>
    /\ Len(calls) = 1
    /\ outcome.ok \/ outcome.error.kind # "ValidationError"

\* The text is two numbers joined by the separator and nothing else.
IsNumberLiteral(s) ==
  LET u == IF s # "" /\ SubSeq(s, 1, 1) \in {"+", "-"}
           THEN SubSeq(s, 2, Len(s)) ELSE s
  IN  IsUnsignedDecimal(u)
IsNumberPair(s, sep) ==
  /\ Len(Split(s, sep)) = 2
  /\ IsNumberLiteral(Split(s, sep)[1])
  /\ IsNumberLiteral(Split(s, sep)[2])

\* The request is accepted once the property is left out.
ValidWithout(request, field) ==
  VideoGenerate(Obj([request.f EXCEPT ![field] = Undef])).ok

\* C20: video.generate accepts a string aspect_ratio exactly when it is
\* '<number>:<number>' and a string dimension exactly when it is
\* '<number>x<number>'; any other string is rejected with the
\* ValidationError of that property.
C20_PairFormat ==
  (pc = "done" /\ op = "video.generate") =>
    /\ (Get(req, "aspect_ratio").t = "string" /\ ValidWithout(req, "aspect_ratio"))
         => IF IsNumberPair(Get(req, "aspect_ratio").v, ":")
            THEN Len(calls) = 1
            ELSE /\ calls = <<>>
                 /\ ~outcome.ok
                 /\ outcome.error.message
                      = "aspect_ratio must be in the format 'width:height' (e.g., '16:9')"
    /\ (Get(req, "dimension").t = "string" /\ ValidWithout(req, "dimension"))
         => IF IsNumberPair(Get(req, "dimension").v, "x")
            THEN Len(calls) = 1
            ELSE /\ calls = <<>>
                 /\ ~outcome.ok
                 /\ outcome.error.message
                      = "dimension must be in the format 'widthxheight' (e.g., '1280x720')"


\* The body of the request the invocation hands or has handed to the transport.
Transmitted == pc = "send" \/ Len(calls) = 1
SentBody == IF pc = "send" THEN pending.body ELSE calls[1].body

\* An integer of at least min.
IntegerFrom(v, min) == v.t = "number" /\ DOMAIN v = {"t", "v"} /\ v.v >= min

ImageDefaults ==
  [width |-> Num(1024), height |-> Num(1024), n |-> Num(1),
   seed |-> Null, style_preset |-> Null]
ImageMinimum == [width |-> 64, height |-> 64, n |-> 1]

\* The image.generate request is accepted once the property is given value.
ImageValidWith(request, field, value) ==
  ImageGenerate(Obj([request.f EXCEPT ![field] = value])).ok

\* C21: image.generate sends a request with a supplied width or height
\* exactly when that is an integer >= 64 and with a supplied n exactly when
\* that is an integer >= 1, rejecting it otherwise with the message of that
\* property; an absent width, height, n, seed or style_preset passes the
\* checks and the body sent carries 1024, 1024, 1, null, null in its place.
C21_ImageGenerateBounds ==
  (op = "image.generate" /\ pc \in {"send", "done"}) =>
    /\ \A f \in DOMAIN ImageMinimum :
         (Get(req, f) # Undef /\ ImageValidWith(req, f, Undef)) =>
           IF IntegerFrom(Get(req, f), ImageMinimum[f])
           THEN Transmitted /\ SentBody.f[f] = Get(req, f)
           ELSE /\ calls = <<>>
                /\ pc = "done"
                /\ ~outcome.ok
                /\ outcome.error.kind = "ValidationError"
                /\ outcome.error.message
                     = f \o " must be an integer >= " \o ToString(ImageMinimum[f])
    /\ \A f \in DOMAIN ImageDefaults :
         Get(req, f) = Undef =>
           /\ ImageValidWith(req, f, ImageDefaults[f]) => Transmitted
           /\ Transmitted => SentBody.f[f] = ImageDefaults[f]

\* A width of 64 was sent, with the defaults of the absent properties.
C21_Witness ==
  /\ op = "image.generate"
  /\ pc = "done"
  /\ Get(req, "width") = Num(64)
  /\ Len(calls) = 1
  /\ calls[1].body.f["width"] = Num(64)
  /\ calls[1].body.f["height"] = Num(1024)
  /\ calls[1].body.f["n"] = Num(1)
  /\ calls[1].body.f["seed"] = Null
  /\ calls[1].body.f["style_preset"] = Null


\* C26: video.get_video_status returns the stub response for every
\* requestId, an empty, blank or non-string one included, and never calls
\* the transport.
C26_AlwaysStub ==
  (op = "video.get_video_status" /\ pc = "done") =>
    /\ outcome.ok
    /\ outcome.data.f["status"] = Str("not available")
    /\ outcome.data.f["message"] = Str("This feature is not available yet")
    /\ calls = <<>>

\* requestId is a string with a character that is no white space.
NonBlankString(v) ==
  v.t = "string" /\ \E i \in 1..Len(v.v) : ~IsSpace(SubSeq(v.v, i, i))

\* C26 (amended): video.get_video_status returns the stub response for
\* every requestId that is a non-blank string, throws the ValidationError
\* 'request_id must be a non-empty string' for every other requestId, and
\* never calls the transport.
C26_StubForNonBlankString ==
  (op = "video.get_video_status" /\ pc = "done") =>
    /\ calls = <<>>
    /\ IF NonBlankString(req)
       THEN /\ outcome.ok
            /\ outcome.data.f["status"] = Str("not available")
            /\ outcome.data.f["message"] = Str("This feature is not available yet")
       ELSE /\ ~outcome.ok
            /\ outcome.error.kind = "ValidationError"
            /\ outcome.error.message = "request_id must be a non-empty string"

\* A blank requestId was rejected.
C26_Witness ==
  /\ op = "video.get_video_status"
  /\ pc = "done"
  /\ req = Str("  ")
  /\ ~outcome.ok
  /\ outcome.error.message = "request_id must be a non-empty string"


\* C27: an operation that fails in its validation phase, before any file
\* operation or transport call, fails with a ValidationError, whatever the
\* type of the value supplied in a request field; no other exception escapes.
C27_OnlyValidationErrors ==
  (pc = "done" /\ ~outcome.ok /\ calls = <<>> /\ fileio = 0) =>
    outcome.error.kind = "ValidationError"


\* The exchange ended with an exception that is no TypeError naming fetch.
UnrecognisedException ==
  /\ pc = "done"
  /\ ~exch.done
  /\ ~(exch.exc.kind = "TypeError" /\ Includes(exch.exc.message, "fetch"))

\* C29: an exception raised inside makeRequest / makeFormDataRequest that is
\* neither an AlleAIError nor a TypeError whose message contains 'fetch' is
\* thrown on as APIError UNEXPECTED_ERROR with undefined status, the message
\* 'An unexpected error occurred: <original message>' and the original
\* message as details.originalError; an exchange that completed with an HTTP
\* status never yields UNEXPECTED_ERROR.
C29_UnexpectedErrorWrap ==
  /\ UnrecognisedException =>
       /\ ~outcome.ok
       /\ outcome.error.kind = "APIError"
       /\ outcome.error.code = "UNEXPECTED_ERROR"
       /\ outcome.error.status = Undef
       /\ outcome.error.message
            = "An unexpected error occurred: " \o exch.exc.message
       /\ outcome.error.details = [originalError |-> Str(exch.exc.message)]
  /\ (pc = "done" /\ exch.done) =>
       (outcome.ok \/ outcome.error.code # "UNEXPECTED_ERROR")

\* A RangeError raised while the body was serialised was wrapped.
C29_Witness ==
  /\ UnrecognisedException
  /\ exch.exc.kind = "RangeError"
  /\ outcome.error.code = "UNEXPECTED_ERROR"
  /\ outcome.error.message
       = "An unexpected error occurred: Maximum call stack size exceeded"


\* What the operation's method does with the request before its first await.
FirstStep(operation, request) ==
  CASE operation = "chat.completions" -> completions(request)
    [] operation = "chat.combination" -> combination(request)
    [] operation = "chat.comparison" -> comparison(request)
    [] operation = "chat.search" -> search(request)
    [] operation = "image.generate" -> ImageGenerate(request)
    [] operation = "image.edit" -> ImageEdit(request)
    [] operation = "audio.generate" -> AudioGenerate(request)
    [] operation = "audio.tts" -> tts(request)
    [] operation = "audio.stt" -> stt(request)
    [] operation = "video.generate" -> VideoGenerate(request)
    [] OTHER -> get_video_status(request)

\* The file of an image.edit / audio.stt request was resolved and attached.
FileResolved == pending.body.t = "object" /\ "file" \in DOMAIN pending.body.f

\* The invocation has settled and its request passed validation (for
\* image.edit / audio.stt: and its file was resolved).
ValidInvocationDone ==
  /\ pc = "done"
  /\ FirstStep(op, req).ok
  /\ op \in FileOps => FileResolved

\* The exchange failed: an exception, a non-2xx status or an undecodable body.
ExchangeFailed ==
  \/ ~exch.done
  \/ ~ResponseOk(exch.response)
  \/ exch.response.body.json = Throws

\* One exchange at most; its failure is the caller's error, its decoded
\* body the caller's value.
OneExchangeSurfaced ==
  /\ Len(calls) <= 1
  /\ (pc = "done" /\ Len(calls) = 1) =>
       IF ExchangeFailed THEN ~outcome.ok
       ELSE outcome = Return(exch.response.body.json)

Validator(entry, request) ==
  IF entry = "audio.generate" THEN AudioGenerate(request)
  ELSE validateRequestParameters(request)

RevalidatedRequests(entry) ==
  IF entry = "audio.generate" THEN AudioGenerateRequests ELSE ChatRequests

\* The requests validated in between: one that passes, one that fails.
OtherRequests(entry) ==
  IF entry = "audio.generate"
  THEN {Obj([models |-> Arr(<<Str("gpt-4o")>>), prompt |-> Str("rain"),
             model_specific_params |-> Undef]),
        Obj([models |-> Arr(<<>>), prompt |-> Str("rain"),
             model_specific_params |-> Undef])}
  ELSE {ChatRequestWith("temperature", Num(1)),
        Obj([models |-> Arr(<<Str("gpt-4o")>>), messages |-> Arr(<<Null>>)])}

InitRevalidate ==
  /\ pc = "validate"
  /\ op \in {"validateRequestParameters", "audio.generate"}
  /\ req \in RevalidatedRequests(op)
  /\ pending = NoPending
  /\ exch = NoExchange
  /\ calls = <<>>
  /\ fileio = 0
  /\ thrown = NoOutcome
  /\ outcome = NoOutcome
  /\ NoFileActivity

\* The validator reads its argument and assigns to nothing but its locals.
ValidateOnceNormalising ==
  /\ pc = "validate"
  /\ thrown' = Validator(op, req)
  /\ outcome' = thrown'
  /\ req' = IF req.t = "object" /\ "models" \in DOMAIN req.f
            THEN Obj([req.f EXCEPT !["models"] = Arr(<<>>)]) ELSE req
  /\ pc' = "validated"
  /\ UNCHANGED <<op, pending, exch, calls, fileio>>
  /\ UNCHANGED fvars
ValidateOnce ==
  /\ pc = "validate"
  /\ thrown' = Validator(op, req)
  /\ outcome' = thrown'
  /\ pc' = "validated"
  /\ UNCHANGED <<op, req, pending, exch, calls, fileio>>
  /\ UNCHANGED fvars

ValidateOther ==
  /\ pc = "validated"
  /\ \E r \in OtherRequests(op) :
       /\ pending' = [endpoint |-> "", body |-> r]
       /\ outcome' = Validator(op, r)
  /\ pc' = "other"
  /\ UNCHANGED <<op, req, exch, calls, fileio, thrown>>
  /\ UNCHANGED fvars

ValidateAgain ==
  /\ pc \in {"validated", "other"}
  /\ outcome' = Validator(op, req)
  /\ pc' = "again"
  /\ UNCHANGED <<op, req, pending, exch, calls, fileio, thrown>>
  /\ UNCHANGED fvars

NextRevalidate == ValidateOnce \/ ValidateOther \/ ValidateAgain

SpecRevalidate == InitRevalidate /\ [][NextRevalidate]_vars

RemoteSize(url) ==
  CASE Basename(UrlPathname(url)) = "big.png" -> MAX_FILE_SIZE + 1
    [] Basename(UrlPathname(url)) = "edge.PNG" -> MAX_FILE_SIZE
    [] StartsWith(url, "https://b.example/") -> 2048
    [] OTHER -> 1024
LocalStat(filePath) ==
  CASE Trim(filePath) = "./cat.png" -> [kind |-> "file", size |-> 1024]
    [] Trim(filePath) = "./edge.PNG" -> [kind |-> "file", size |-> MAX_FILE_SIZE]
    [] Trim(filePath) = "./big.png" -> [kind |-> "file", size |-> MAX_FILE_SIZE + 1]
    [] Trim(filePath) = "./notes.txt" -> [kind |-> "file", size |-> 1024]
    [] Trim(filePath) = "./photos" -> [kind |-> "directory", size |-> 4096]
    [] OTHER -> [kind |-> "ENOENT", size |-> 0]

\* The calls made: the file reference and the media kind.
FileCases ==
  {[filePath |-> f, type |-> "image"] :
     f \in {"https://a.example/cat.png", "https://b.example/pets/cat.png",
            "https://a.example/edge.PNG", "https://a.example/big.png",
            "https://a.example/notes.txt", "ftp://a.example/cat.png",
            "./cat.png", "./edge.PNG", "./big.png", "./notes.txt", "./photos",
            "./missing.png"}}
    \cup {[filePath |-> f, type |-> "audio"] :
            f \in {"https://a.example/cat.png", "./cat.png"}}

\* What processFile computes from its arguments alone: the extension it
\* checks, the file name, the path of the local branch; with it, what the
\* host serves and what fs.stat finds there.
FileFacts(filePath, type) ==
  LET absolutePath == "/cwd/" \o Trim(filePath)
      fileExt == ToLowerCase(ExtName(IF IsUrl(filePath) THEN UrlPathname(filePath)
                                     ELSE absolutePath))
  IN  [isUrl |-> IsUrl(filePath),
       fileExt |-> fileExt,
       supported |-> fileExt \in SUPPORTED_EXTENSIONS(type),
       filename |-> Basename(IF IsUrl(filePath) THEN UrlPathname(filePath)
                             ELSE absolutePath),
       absolutePath |-> absolutePath,
       http |-> StartsWith(filePath, "http"),
       remoteSize |-> IF IsUrl(filePath) THEN RemoteSize(filePath) ELSE 0,
       stats |-> LocalStat(filePath)]
Facts == [case \in FileCases |-> FileFacts(case.filePath, case.type)]
Of(t) == Facts[[filePath |-> t.filePath, type |-> t.type]]

\* Date.now() when the temp path is built: two calls may read the same value.
Stamps == {1, 2}

\* stats.size > MAX_FILE_SIZE
TooLargeInclusive(size) == size >= MAX_FILE_SIZE
TooLarge(size) == size > MAX_FILE_SIZE

UnsupportedError(prefix, fileExt, type) ==
  Exception("Error",
            prefix \o " '" \o fileExt \o "' not supported for " \o type
              \o ". Supported types: " \o SupportedList(type), "file")
DownloadStatusError ==
  Exception("Error", "Failed to download file: Not Found", "download")
DownloadRequestError ==
  Exception("Error", "getaddrinfo ENOTFOUND a.example", "download")
NoEntryError(call, path) ==
  Exception("Error", "ENOENT: no such file or directory, " \o call \o " '"
                       \o path \o "'", "ENOENT")
IoError(call) == Exception("Error", "EIO: i/o error, " \o call, "EIO")

\* The bytes of a file: whose they are and how many.
Bytes(from, size) == [from |-> from, size |-> size]
\* A file of the temp directory: the calls holding a write stream on it and
\* its content.
TempFile(writers, from, size) == [writers |-> writers, from |-> from, size |-> size]

Exists(path) == path \in DOMAIN disk
Put(path, file) ==
  [q \in DOMAIN disk \cup {path} |-> IF q = path THEN file ELSE disk[q]]
Remove(path) == [q \in DOMAIN disk \ {path} |-> disk[q]]

\* createWriteStream(destPath): the file is created, or truncated when it
\* exists already.
CreateWriteStream(path, c) ==
  Put(path, TempFile((IF Exists(path) THEN disk[path].writers ELSE {}) \cup {c},
                     "", 0))

\* response.pipe(fileStream) up to 'finish': the stream of call c writes the
\* body from offset 0 into the file it opened, if that is still at path.
PipeBody(path, c, url, size) ==
  IF Exists(path) /\ c \in disk[path].writers
  THEN Put(path,
           TempFile(disk[path].writers,
                    IF disk[path].size <= size THEN url ELSE "mixed",
                    IF disk[path].size <= size THEN size ELSE disk[path].size))
  ELSE disk

\* path.join(tempDir, `${Date.now()}-${filename}`)
TempPath(stamp, filename) == "/cwd/temp/" \o ToString(stamp) \o "-" \o filename

\* The largest value Date.now() has returned to a call so far.
LastStamp ==
  LET used == {task[c].stamp : c \in {d \in Calls : task[d].pc # "idle"}}
  IN  IF used = {} THEN 0 ELSE CHOOSE s \in used : \A u \in used : u <= s

InitFile ==
  /\ pc = "idle"
  /\ op = "processFile"
  /\ req = Undef
  /\ pending = NoPending
  /\ exch = NoExchange
  /\ calls = <<>>
  /\ fileio = 0
  /\ thrown = NoOutcome
  /\ outcome = NoOutcome
  /\ NoFileActivity

\* The call of c goes on to position p with the fields changed as given.
Goto(c, p, changes) ==
  task' = [task EXCEPT ![c] =
             [k \in DOMAIN task[c] |->
                IF k = "pc" THEN p
                ELSE IF k \in DOMAIN changes THEN changes[k] ELSE task[c][k]]]
Settled(c, result) == Goto(c, "done", [outcome |-> result])

\* processFile up to its first await: new URL, the extension check of a URL,
\* fs.mkdir; for a string that is no URL, the catch block up to fs.stat.
StartProcessFile(c) ==
  /\ task[c].pc = "idle"
  /\ \E case \in FileCases :
       LET filePath == case.filePath
           fileExt == Facts[case].fileExt
           begun == [pc |-> "idle", filePath |-> filePath, type |-> case.type,
                     stamp |-> 0, tempPath |-> "", event |-> "none",
                     fault |-> "none", size |-> 0, requests |-> 0, reads |-> 0,
                     buffer |-> Bytes("", 0), outcome |-> NoOutcome]
       IN  task' = [task EXCEPT ![c] =
             IF ~Facts[case].isUrl THEN [begun EXCEPT !.pc = "lstat"]
             ELSE IF ~Facts[case].supported
             THEN [begun EXCEPT !.pc = "done",
                     !.outcome = Throw(UnsupportedError("URL file type", fileExt,
                                                        case.type))]
             ELSE [begun EXCEPT !.pc = "mkdir"]]
  /\ UNCHANGED <<disk, unlinks>>
  /\ UNCHANGED cvars

\* fs.mkdir has resolved: the temp path is built and downloadFile called.
\* Its executor creates the write stream and calls protocol.get, which
\* throws a TypeError at once for a protocol that http.get does not serve;
\* the rejection reaches the catch block of processFile, which takes a
\* TypeError for "not a URL" and goes on with the local branch.
StartDownload(c) ==
  /\ task[c].pc = "mkdir"
  /\ \E stamp \in {s \in Stamps : s >= LastStamp} :
       LET tempPath == TempPath(stamp, Of(task[c]).filename)
       IN  /\ disk' = CreateWriteStream(tempPath, c)
           /\ IF Of(task[c]).http
              THEN Goto(c, "download",
                        [stamp |-> stamp, tempPath |-> tempPath, requests |-> 1])
              ELSE Goto(c, "lstat",
                        [stamp |-> stamp, tempPath |-> tempPath,
                         event |-> "protocol"])
  /\ UNCHANGED unlinks
  /\ UNCHANGED cvars

\* The response has a status other than 200: the stream is closed, fs.unlink
\* is started and not awaited, the promise is rejected.
ResponseNot200(c) ==
  /\ task[c].pc = "download"
  /\ unlinks' = unlinks \cup {task[c].tempPath}
  /\ Goto(c, "done", [event |-> "status", outcome |-> Throw(DownloadStatusError)])
  /\ UNCHANGED disk
  /\ UNCHANGED cvars

\* The request emits 'error': no connection, or a socket error before or
\* after the response has begun.
RequestError(c) ==
  /\ task[c].pc = "download"
  /\ unlinks' = unlinks \cup {task[c].tempPath}
  /\ Goto(c, "done", [event |-> "error", outcome |-> Throw(DownloadRequestError)])
  /\ UNCHANGED disk
  /\ UNCHANGED cvars

\* Status 200, the body is piped and the write stream emits 'finish': the
\* promise is resolved and processFile goes on to fs.stat.
DownloadFinish(c) ==
  /\ task[c].pc = "download"
  /\ disk' = PipeBody(task[c].tempPath, c, task[c].filePath,
                      Of(task[c]).remoteSize)
  /\ Goto(c, "stat", [event |-> "finish"])
  /\ UNCHANGED unlinks
  /\ UNCHANGED cvars

\* Status 200 and the response ends early ('aborted' / 'error' on the
\* response): pipe does not end the write stream, no handler is registered
\* for the event, 'finish' never comes and nothing settles the promise.
ResponseAborted(c) ==
  /\ task[c].pc = "download"
  /\ Goto(c, "hung", [event |-> "aborted"])
  /\ UNCHANGED <<disk, unlinks>>
  /\ UNCHANGED cvars

\* The write stream emits 'error' (disk full, no permission): no handler is
\* registered for it either, and nothing settles the promise.
WriteStreamError(c) ==
  /\ task[c].pc = "download"
  /\ Goto(c, "hung", [event |-> "writeerror"])
  /\ UNCHANGED <<disk, unlinks>>
  /\ UNCHANGED cvars

\* await fs.stat(tempPath) and the size check.
StatTemp(c) ==
  /\ task[c].pc = "stat"
  /\ \E fails \in BOOLEAN :
       LET path == task[c].tempPath
       IN  IF fails
           THEN Goto(c, "done", [fault |-> "stat", outcome |-> Throw(IoError("stat"))])
           ELSE IF ~Exists(path)
           THEN Settled(c, Throw(NoEntryError("stat", path)))
           ELSE IF TooLarge(disk[path].size)
           THEN Goto(c, "unlinkbig", [size |-> disk[path].size])
           ELSE Goto(c, "read", [size |-> disk[path].size])
  /\ UNCHANGED <<disk, unlinks>>
  /\ UNCHANGED cvars

\* await fs.unlink(tempPath) of a file over the limit, then the throw.
UnlinkOversize(c) ==
  /\ task[c].pc = "unlinkbig"
  /\ LET path == task[c].tempPath
     IN  IF Exists(path)
         THEN /\ disk' = Remove(path)
              /\ Settled(c, Throw(SizeError(task[c].size)))
         ELSE /\ disk' = disk
              /\ Settled(c, Throw(NoEntryError("unlink", path)))
  /\ UNCHANGED unlinks
  /\ UNCHANGED cvars

\* await fs.readFile(tempPath).
ReadTemp(c) ==
  /\ task[c].pc = "read"
  /\ \E fails \in BOOLEAN :
       LET path == task[c].tempPath
       IN  IF fails
           THEN Goto(c, "done", [fault |-> "read", reads |-> task[c].reads + 1,
                                 outcome |-> Throw(IoError("read"))])
           ELSE IF ~Exists(path)
           THEN Goto(c, "done", [reads |-> task[c].reads + 1,
                                 outcome |-> Throw(NoEntryError("open", path))])
           ELSE Goto(c, "unlink",
                     [reads |-> task[c].reads + 1,
                      buffer |-> Bytes(disk[path].from, disk[path].size)])
  /\ UNCHANGED <<disk, unlinks>>
  /\ UNCHANGED cvars

\* await fs.unlink(tempPath) and the return.
UnlinkTemp(c) ==
  /\ task[c].pc = "unlink"
  /\ LET path == task[c].tempPath
     IN  IF Exists(path)
         THEN /\ disk' = Remove(path)
              /\ Settled(c, Return([buffer |-> task[c].buffer,
                                    filename |-> Of(task[c]).filename,
                                    filepath |-> path]))
         ELSE /\ disk' = disk
              /\ Settled(c, Throw(NoEntryError("unlink", path)))
  /\ UNCHANGED unlinks
  /\ UNCHANGED cvars

\* The local branch: await fs.stat(absolutePath) and the three checks.
StatLocal(c) ==
  /\ task[c].pc = "lstat"
  /\ LET filePath == task[c].filePath
         stats == Of(task[c]).stats
         fileExt == Of(task[c]).fileExt
     IN  IF stats.kind = "ENOENT"
         THEN Settled(c, Throw(Exception("Error", "File not found: " \o filePath,
                                         "file")))
         ELSE IF stats.kind # "file"
         THEN Settled(c, Throw(Exception("Error", "Not a file: " \o filePath,
                                         "file")))
         ELSE IF TooLarge(stats.size)
         THEN Goto(c, "done", [size |-> stats.size,
                               outcome |-> Throw(SizeError(stats.size))])
         ELSE IF ~Of(task[c]).supported
         THEN Goto(c, "done",
                   [size |-> stats.size,
                    outcome |-> Throw(UnsupportedError("File type", fileExt,
                                                       task[c].type))])
         ELSE Goto(c, "lread", [size |-> stats.size])
  /\ UNCHANGED <<disk, unlinks>>
  /\ UNCHANGED cvars

\* await fs.readFile(absolutePath) and the return.
ReadLocal(c) ==
  /\ task[c].pc = "lread"
  /\ LET absolutePath == Of(task[c]).absolutePath
         buffer == Bytes(absolutePath, task[c].size)
     IN  Goto(c, "done",
              [reads |-> task[c].reads + 1, buffer |-> buffer,
               outcome |-> Return([buffer |-> buffer,
                                   filename |-> Of(task[c]).filename,
                                   filepath |-> absolutePath])])
  /\ UNCHANGED <<disk, unlinks>>
  /\ UNCHANGED cvars

\* An fs.unlink that downloadFile started completes; .catch(() => {})
\* swallows its failure when the file is gone.
BackgroundUnlink ==
  /\ \E path \in unlinks :
       /\ unlinks' = unlinks \ {path}
       /\ disk' = Remove(path)
  /\ UNCHANGED task
  /\ UNCHANGED cvars

FileStep(c) ==
  \/ StartProcessFile(c)
  \/ StartDownload(c)
  \/ ResponseNot200(c)
  \/ RequestError(c)
  \/ DownloadFinish(c)
  \/ ResponseAborted(c)
  \/ WriteStreamError(c)
  \/ StatTemp(c)
  \/ UnlinkOversize(c)
  \/ ReadTemp(c)
  \/ UnlinkTemp(c)
  \/ StatLocal(c)
  \/ ReadLocal(c)

\* Two calls side by side.
NextFile == (\E c \in Calls : FileStep(c)) \/ BackgroundUnlink
SpecFile == InitFile /\ [][NextFile]_vars

\* One call alone.
NextFileAlone == FileStep(1) \/ BackgroundUnlink
SpecFileAlone == InitFile /\ [][NextFileAlone]_vars

\* The event loop runs every callback that is ready, and a request that was
\* started meets one of its events.
SpecFileFair ==
  /\ InitFile
  /\ [][NextFile]_vars
  /\ \A c \in Calls : WF_vars(FileStep(c))
  /\ WF_vars(BackgroundUnlink)


(***************************************************************************)
(* Properties of processFile (checked under SpecFile, SpecFileAlone and    *)
(* SpecFileFair).                                                          *)
(***************************************************************************)
Running(c) == task[c].pc # "idle"
Done(c) == task[c].pc = "done"

\* C22: when processFile has settled for a URL input, no file exists at the
\* temp path it created, or at least the removal of that file has been
\* started.
C22_ScratchFileRemoved ==
  \A c \in Calls :
    (Done(c) /\ task[c].tempPath # "") =>
      (~Exists(task[c].tempPath) \/ task[c].tempPath \in unlinks)

\* What a call whose download finished returns or throws when it runs alone.
AloneOutcome(t) ==
  LET url == t.filePath
  IN  IF t.fault = "stat" THEN Throw(IoError("stat"))
      ELSE IF RemoteSize(url) > MAX_FILE_SIZE THEN Throw(SizeError(RemoteSize(url)))
      ELSE IF t.fault = "read" THEN Throw(IoError("read"))
      ELSE Return([buffer |-> Bytes(url, RemoteSize(url)),
                   filename |-> Basename(UrlPathname(url)),
                   filepath |-> t.tempPath])

\* C23: of two calls running side by side, each settles with the outcome it
\* has when run alone, and no file of the temp directory is written by the
\* streams of both.
C23_CallsIndependent ==
  /\ \A c \in Calls :
       (Done(c) /\ task[c].event = "finish") =>
         task[c].outcome = AloneOutcome(task[c])
  /\ \A path \in DOMAIN disk : Cardinality(disk[path].writers) <= 1

\* The call's input passes the extension check of its branch.
ExtensionAllowed(t) ==
  ToLowerCase(ExtName(IF IsUrl(t.filePath) THEN UrlPathname(t.filePath)
                      ELSE Trim(t.filePath)))
    \in SUPPORTED_EXTENSIONS(t.type)

\* The size of the file the call refers to, when it got to see it.
SizeSeen(t) ==
  IF IsUrl(t.filePath) /\ t.event = "finish" /\ t.fault # "stat"
  THEN RemoteSize(t.filePath)
  ELSE IF ~IsUrl(t.filePath) /\ LocalStat(t.filePath).kind = "file"
  THEN LocalStat(t.filePath).size
  ELSE 0 - 1

\* C28: processFile returns a buffer only of a file of at most
\* 20 * 1024 * 1024 bytes whose lower-cased extension is allowed for the
\* media kind: a file of exactly that size is returned, one of a byte more
\* is rejected for its size; a URL with another extension causes no request
\* and no temp file, and of a local file over the limit or with another
\* extension nothing is read.
C28_WithinLimits ==
  \A c \in Calls :
    Running(c) =>
      LET t == task[c]
      IN  /\ (Done(c) /\ t.outcome.ok) =>
                /\ t.outcome.data.buffer.size <= 20 * 1024 * 1024
                /\ SizeSeen(t) = t.outcome.data.buffer.size
                /\ ToLowerCase(ExtName(t.outcome.data.filename))
                     \in SUPPORTED_EXTENSIONS(t.type)
          /\ (Done(c) /\ SizeSeen(t) = 20 * 1024 * 1024 /\ ExtensionAllowed(t)
                /\ t.fault = "none") => t.outcome.ok
          /\ (Done(c) /\ SizeSeen(t) = 20 * 1024 * 1024 + 1) =>
                /\ ~t.outcome.ok
                /\ t.outcome.error.message
                     = "File size (20.00MB) exceeds max limit (20MB)"
          /\ (IsUrl(t.filePath) /\ ~ExtensionAllowed(t)) =>
                /\ Done(c)
                /\ t.requests = 0
                /\ t.tempPath = ""
                /\ t.reads = 0
                /\ DOMAIN disk = {}
          /\ (~IsUrl(t.filePath)
                /\ (SizeSeen(t) > 20 * 1024 * 1024 \/ ~ExtensionAllowed(t))) =>
                t.reads = 0

\* A download of exactly 20 MB with the extension .PNG was returned.
C28_Witness ==
  /\ Done(1)
  /\ task[1].filePath = "https://a.example/edge.PNG"
  /\ task[1].outcome.ok
  /\ task[1].outcome.data.buffer.size = MAX_FILE_SIZE
  /\ task[1].outcome.data.filename = "edge.PNG"

\* C30: a download that was started settles: the call of processFile
\* awaiting it returns or throws.
C30_DownloadSettles ==
  \A c \in Calls : (task[c].pc = "download") ~> Done(c)

====
